---- MODULE Spec2Model ----
(***************************************************************************)
(* A model of src/flexible_parser.py: FlexibleJSONParser (the strategy     *)
(* pipeline of parse and each of its strategies) and N8nFlashcardParser.   *)
(*                                                                         *)
(* Text is modelled at character level: a Python str is a sequence of      *)
(* one-character strings, so that json.loads, str.replace and every        *)
(* regular expression of the source are computed on the characters the     *)
(* way the code computes them.  A decoded Python value is a record         *)
(* [t |-> type, v |-> payload]:                                            *)
(*    None / JSON null   [t |-> "null", v |-> <<>>]                        *)
(*    bool               [t |-> "bool", v |-> <<"true">>] (or "false")     *)
(*    int / float        [t |-> "num",  v |-> the literal's characters]    *)
(*    str                [t |-> "str",  v |-> the characters]              *)
(*    list               [t |-> "list", v |-> the items]                   *)
(*    dict               [t |-> "dict", v |-> <<key, value>> pairs in      *)
(*                                            insertion order]             *)
(***************************************************************************)
EXTENDS Integers, Sequences, FiniteSets, TLC

(***************************************************************************)
(* Characters                                                              *)
(***************************************************************************)
QUOTE == "\""
BSL == "\\"
\* the backtick, which a TLA+ string literal cannot hold
TICK == "<U+0060>"
BOM == "<U+FEFF>"

\* the characters a JSON escape can decode to that no TLA+ literal holds
BACKSPACE == "<U+0008>"
FORMFEED == "<U+000C>"

\* json.decoder WHITESPACE
JsonWhitespace == {" ", "\t", "\n", "\r"}

\* str.strip() and the regex class \s
Whitespace == JsonWhitespace \cup {FORMFEED}

\* the characters below U+0020, which a JSON string may not hold unescaped
ControlChars == {"\t", "\n", "\r", BACKSPACE, FORMFEED}

Digits == {"0", "1", "2", "3", "4", "5", "6", "7", "8", "9"}

HexDigits == Digits \cup {"a", "b", "c", "d", "e", "f", "A", "B", "C", "D", "E", "F"}

Letters ==
    {"a", "b", "c", "d", "e", "f", "g", "h", "i", "j", "k", "l", "m",
     "n", "o", "p", "q", "r", "s", "t", "u", "v", "w", "x", "y", "z",
     "A", "B", "C", "D", "E", "F", "G", "H", "I", "J", "K", "L", "M",
     "N", "O", "P", "Q", "R", "S", "T", "U", "V", "W", "X", "Y", "Z"}

\* the regex class \w
WordChars == Letters \cup Digits \cup {"_"}

(***************************************************************************)
(* Python values                                                           *)
(***************************************************************************)
None == [t |-> "null", v |-> <<>>]
PyBool(b) == [t |-> "bool", v |-> <<b>>]
PyNum(chars) == [t |-> "num", v |-> chars]
PyStr(chars) == [t |-> "str", v |-> chars]
PyList(items) == [t |-> "list", v |-> items]
PyDict(pairs) == [t |-> "dict", v |-> pairs]

IsDict(x) == x.t = "dict"
IsList(x) == x.t = "list"
IsStr(x) == x.t = "str"

\* key in d
HasKey(d, key) == \E n \in 1..Len(d.v) : d.v[n][1] = key

\* d[key], for a key that is in d
DictGet(d, key) == d.v[CHOOSE n \in 1..Len(d.v) : d.v[n][1] = key][2]

\* d.get(key, default)
DictGetDefault(d, key, default) == IF HasKey(d, key) THEN DictGet(d, key) ELSE default

\* d[key] = val on a dict under construction: a repeated key keeps its first
\* position and takes the last value
DictSet(pairs, key, val) ==
    IF \E n \in 1..Len(pairs) : pairs[n][1] = key
    THEN [n \in 1..Len(pairs) |-> IF pairs[n][1] = key THEN <<key, val>> ELSE pairs[n]]
    ELSE Append(pairs, <<key, val>>)

\* bool(x): Python truthiness
Truthy(x) ==
    CASE x.t = "null" -> FALSE
      [] x.t = "bool" -> x.v = <<"true">>
      [] x.t = "num" ->
            LET mant == SelectSeq(x.v, LAMBDA c : c \in Digits \cup {"e", "E", "N", "I"})
                upto == IF \E n \in 1..Len(mant) : mant[n] \in {"e", "E"}
                        THEN (CHOOSE n \in 1..Len(mant) :
                                 /\ mant[n] \in {"e", "E"}
                                 /\ \A m \in 1..(n - 1) : mant[m] \notin {"e", "E"}) - 1
                        ELSE Len(mant)
            IN \E n \in 1..upto : mant[n] # "0"
      [] OTHER -> x.v # <<>>

(***************************************************************************)
(* str helpers                                                             *)
(***************************************************************************)
\* s[i:i+len(pat)] == pat, for a 1-based index i
MatchAt(s, i, pat) ==
    /\ i >= 1
    /\ i + Len(pat) - 1 <= Len(s)
    /\ \A k \in 1..Len(pat) : s[i + k - 1] = pat[k]

\* pat in s
Contains(s, pat) == \E i \in 1..(Len(s) - Len(pat) + 1) : MatchAt(s, i, pat)

\* s.startswith(pat)
StartsWith(s, pat) == MatchAt(s, 1, pat)

\* s[i:] for a 1-based index i
From(s, i) == SubSeq(s, i, Len(s))

\* the first k in lo..hi with P(k), 0 when there is none
FirstIdx(lo, hi, P(_)) ==
    IF \E k \in lo..hi : P(k)
    THEN CHOOSE k \in lo..hi : P(k) /\ \A q \in lo..(k - 1) : ~P(q)
    ELSE 0

\* the last k in lo..hi with P(k), 0 when there is none
LastIdx(lo, hi, P(_)) ==
    IF \E k \in lo..hi : P(k)
    THEN CHOOSE k \in lo..hi : P(k) /\ \A q \in (k + 1)..hi : ~P(q)
    ELSE 0

\* the first index from i whose character is in chars, 0 if there is none
NextIn(s, i, chars) == FirstIdx(i, Len(s), LAMBDA k : s[k] \in chars)

\* the end (exclusive) of the run of characters of chars that starts at i
RunEnd(s, i, chars) ==
    LET k == FirstIdx(i, Len(s), LAMBDA q : s[q] \notin chars)
    IN IF k = 0 THEN (IF i > Len(s) THEN i ELSE Len(s) + 1) ELSE k

\* the end of the whitespace run that starts at i (the regex \s* at i)
SkipWs(s, i) == RunEnd(s, i, Whitespace)

\* the last index up to j whose character is not whitespace, 0 if there is none
SkipWsBack(s, j) == LastIdx(1, j, LAMBDA q : s[q] \notin Whitespace)

\* s.strip()
Strip(s) == SubSeq(s, SkipWs(s, 1), SkipWsBack(s, Len(s)))

RECURSIVE ReplaceFrom(_, _, _, _, _)
\* the scan goes from one occurrence to the next one that starts after it
ReplaceFrom(s, i, old, new, out) ==
    LET k == FirstIdx(i, Len(s), LAMBDA q : MatchAt(s, q, old))
    IN IF k = 0 THEN out \o From(s, i)
       ELSE ReplaceFrom(s, k + Len(old), old, new, out \o SubSeq(s, i, k - 1) \o new)

\* s.replace(old, new): every non-overlapping occurrence, left to right
Replace(s, old, new) == ReplaceFrom(s, 1, old, new, <<>>)

RECURSIVE SubFrom(_, _, _, _)
SubFrom(s, m, i, out) ==
    LET k == FirstIdx(i, Len(s), LAMBDA q : m[q].ok)
    IN IF k = 0 THEN out \o From(s, i)
       ELSE SubFrom(s, m, m[k].end, out \o SubSeq(s, i, k - 1) \o m[k].rep)

\* re.sub for a pattern that matches no empty string: m[i] tells whether the
\* pattern matches at i, where the match ends (exclusive) and what replaces it;
\* the scan goes from one match to the next one that starts after it
ReSub(s, m) == SubFrom(s, m, 1, <<>>)

NoMatch == [ok |-> FALSE, end |-> 0, rep |-> <<>>]
Match(end, rep) == [ok |-> TRUE, end |-> end, rep |-> rep]

RECURSIVE FindAllFrom(_, _, _, _)
FindAllFrom(s, m, i, out) ==
    LET k == FirstIdx(i, Len(s), LAMBDA q : m[q].ok)
    IN IF k = 0 THEN out
       ELSE FindAllFrom(s, m, m[k].end, Append(out, m[k].rep))

\* re.findall for a pattern with one group that matches no empty string: m[i].rep
\* is the group of the match at i
ReFindAll(s, m) == FindAllFrom(s, m, 1, <<>>)

(***************************************************************************)
(* json.loads (the standard library's decoder, strict mode)                *)
(***************************************************************************)
JFail == [ok |-> FALSE, v |-> None, i |-> 0]
JOk(val, next) == [ok |-> TRUE, v |-> val, i |-> next]

\* json.decoder BACKSLASH: the character a one-letter escape stands for
Unescaped(c) ==
    CASE c = "n" -> "\n"
      [] c = "t" -> "\t"
      [] c = "r" -> "\r"
      [] c = "b" -> BACKSPACE
      [] c = "f" -> FORMFEED
      [] OTHER -> c

RECURSIVE Flatten(_, _, _)
\* seqs[lo] \o ... \o seqs[hi]
Flatten(seqs, lo, hi) ==
    IF lo > hi THEN <<>>
    ELSE IF lo = hi THEN seqs[lo]
    ELSE Flatten(seqs, lo, (lo + hi) \div 2) \o Flatten(seqs, (lo + hi) \div 2 + 1, hi)

\* json.decoder scanstring, from the character after the opening quote: the
\* string ends at the first quote that no backslash escapes; a control
\* character or a bad escape before it is an error. acc is what has been
\* decoded before i.
ScanString(s, i, acc) ==
    LET \* the backslash at k starts an escape: the backslashes before it pair up
        IsEsc(k) ==
            /\ s[k] = BSL
            /\ LET r == LastIdx(i, k - 1, LAMBDA q : s[q] # BSL)
               IN (k - 1 - (IF r = 0 THEN i - 1 ELSE r)) % 2 = 0
        IsEscaped(k) == k > i /\ IsEsc(k - 1)
        close == FirstIdx(i, Len(s), LAMBDA k : s[k] = QUOTE /\ ~IsEscaped(k))
        GoodEsc(k) ==
            /\ k + 1 <= Len(s)
            /\ \/ s[k + 1] \in {QUOTE, BSL, "/", "b", "f", "n", "r", "t"}
               \/ /\ s[k + 1] = "u"
                  /\ k + 5 <= Len(s)
                  /\ \A q \in 2..5 : s[k + q] \in HexDigits
        InHex(k) == \E d \in 2..5 : k - d >= i /\ IsEsc(k - d) /\ s[k - d + 1] = "u"
        CharsAt(k) ==
            IF IsEsc(k)
            THEN IF s[k + 1] = "u"
                 THEN <<"<U+" \o s[k + 2] \o s[k + 3] \o s[k + 4] \o s[k + 5] \o ">">>
                 ELSE <<Unescaped(s[k + 1])>>
            ELSE IF IsEscaped(k) \/ InHex(k) THEN <<>>
            ELSE <<s[k]>>
    IN IF close = 0 THEN JFail
       ELSE IF (\E k \in i..(close - 1) :
                   s[k] \in ControlChars \/ (IsEsc(k) /\ ~GoodEsc(k)))
       THEN JFail
       ELSE JOk(PyStr(acc \o Flatten([k \in 1..(close - i) |-> CharsAt(i + k - 1)],
                                     1, close - i)),
                close + 1)

SkipDigits(s, i) == RunEnd(s, i, Digits)

\* WHITESPACE.match(s, i).end()
JsonWs(s, i) == RunEnd(s, i, JsonWhitespace)

IsDigitAt(s, i) == i <= Len(s) /\ s[i] \in Digits

\* json.scanner NUMBER_RE, (-?(?:0|[1-9]\d*))(\.\d+)?([eE][-+]?\d+)?: the end of
\* the integer part that starts at j, 0 when there is none
IntegerEnd(s, j) ==
    IF ~IsDigitAt(s, j) THEN 0
    ELSE IF s[j] = "0" THEN j + 1
    ELSE SkipDigits(s, j)

\* the end of the fraction, if there is one at j
FractionEnd(s, j) ==
    IF j <= Len(s) /\ s[j] = "." /\ IsDigitAt(s, j + 1) THEN SkipDigits(s, j + 1) ELSE j

\* the end of the exponent, if there is one at j
ExponentEnd(s, j) ==
    IF j <= Len(s) /\ s[j] \in {"e", "E"}
    THEN IF j + 1 <= Len(s) /\ s[j + 1] \in {"+", "-"}
         THEN (IF IsDigitAt(s, j + 2) THEN SkipDigits(s, j + 2) ELSE j)
         ELSE (IF IsDigitAt(s, j + 1) THEN SkipDigits(s, j + 1) ELSE j)
    ELSE j

\* the end of the number whose integer part ends at j
NumberTail(s, j) == IF j = 0 THEN 0 ELSE ExponentEnd(s, FractionEnd(s, j))

\* NUMBER_RE.match(s, i): the end of the number at i, 0 when none
NumberEnd(s, i) ==
    NumberTail(s, IntegerEnd(s, IF i <= Len(s) /\ s[i] = "-" THEN i + 1 ELSE i))

W_null == <<"n", "u", "l", "l">>
W_true == <<"t", "r", "u", "e">>
W_false == <<"f", "a", "l", "s", "e">>
W_NaN == <<"N", "a", "N">>
W_Infinity == <<"I", "n", "f", "i", "n", "i", "t", "y">>

\* scan_once on a number or a constant: e is NumberEnd(s, i)
ScanNumber(s, i, e) ==
    IF e # 0 THEN JOk(PyNum(SubSeq(s, i, e - 1)), e)
    ELSE IF MatchAt(s, i, W_NaN) THEN JOk(PyNum(W_NaN), i + 3)
    ELSE IF MatchAt(s, i, W_Infinity) THEN JOk(PyNum(W_Infinity), i + 8)
    ELSE IF MatchAt(s, i, <<"-">> \o W_Infinity) THEN JOk(PyNum(<<"-">> \o W_Infinity), i + 9)
    ELSE JFail

RECURSIVE ScanOnce(_, _)
RECURSIVE ScanArray(_, _, _)
RECURSIVE ArrayNext(_, _, _)
RECURSIVE ScanObject(_, _, _)
RECURSIVE ObjectValue(_, _, _)
RECURSIVE ObjectNext(_, _, _, _)

\* json.scanner scan_once: the value that starts at i
ScanOnce(s, i) ==
    IF i > Len(s) THEN JFail
    ELSE IF s[i] = QUOTE THEN ScanString(s, i + 1, <<>>)
    ELSE IF s[i] = "{" THEN ScanObject(s, JsonWs(s, i + 1), <<>>)
    ELSE IF s[i] = "[" THEN ScanArray(s, JsonWs(s, i + 1), <<>>)
    ELSE IF MatchAt(s, i, W_null) THEN JOk(None, i + 4)
    ELSE IF MatchAt(s, i, W_true) THEN JOk(PyBool("true"), i + 4)
    ELSE IF MatchAt(s, i, W_false) THEN JOk(PyBool("false"), i + 5)
    ELSE ScanNumber(s, i, NumberEnd(s, i))

\* json.decoder JSONArray, at the first or the next item; an array with no
\* items closes at once
ScanArray(s, i, items) ==
    IF items = <<>> /\ i <= Len(s) /\ s[i] = "]" THEN JOk(PyList(<<>>), i + 1)
    ELSE ArrayNext(s, items, ScanOnce(s, i))

\* JSONArray after the item: the end of the array, or a comma and the next item
ArrayNext(s, items, item) ==
    IF ~item.ok \/ JsonWs(s, item.i) > Len(s) THEN JFail
    ELSE IF s[JsonWs(s, item.i)] = "]"
    THEN JOk(PyList(Append(items, item.v)), JsonWs(s, item.i) + 1)
    ELSE IF s[JsonWs(s, item.i)] = ","
    THEN ArrayNext(s, Append(items, item.v), ScanOnce(s, JsonWs(s, JsonWs(s, item.i) + 1)))
    ELSE JFail

\* json.decoder JSONObject, at the first or the next key; an object with no
\* pairs closes at once
ScanObject(s, i, pairs) ==
    IF pairs = <<>> /\ i <= Len(s) /\ s[i] = "}" THEN JOk(PyDict(<<>>), i + 1)
    ELSE IF i > Len(s) \/ s[i] # QUOTE THEN JFail
    ELSE ObjectValue(s, pairs, ScanString(s, i + 1, <<>>))

\* JSONObject after the key: the colon and the value
ObjectValue(s, pairs, key) ==
    IF ~key.ok \/ JsonWs(s, key.i) > Len(s) THEN JFail
    ELSE IF s[JsonWs(s, key.i)] # ":" THEN JFail
    ELSE ObjectNext(s, pairs, key.v.v, ScanOnce(s, JsonWs(s, JsonWs(s, key.i) + 1)))

\* JSONObject after the value: the end of the object, or a comma and the next key
ObjectNext(s, pairs, key, val) ==
    IF ~val.ok \/ JsonWs(s, val.i) > Len(s) THEN JFail
    ELSE IF s[JsonWs(s, val.i)] = "}"
    THEN JOk(PyDict(DictSet(pairs, key, val.v)), JsonWs(s, val.i) + 1)
    ELSE IF s[JsonWs(s, val.i)] = ","
    THEN IF JsonWs(s, JsonWs(s, val.i) + 1) <= Len(s)
            /\ s[JsonWs(s, JsonWs(s, val.i) + 1)] = QUOTE
         THEN ObjectValue(s, DictSet(pairs, key, val.v),
                          ScanString(s, JsonWs(s, JsonWs(s, val.i) + 1) + 1, <<>>))
         ELSE JFail
    ELSE JFail

\* the decoder's result when the value r is all of s but for whitespace
WholeText(s, r) == IF r.ok /\ JsonWs(s, r.i) = Len(s) + 1 THEN r ELSE JFail

\* json.loads(s): [ok |-> TRUE, v |-> the value] or, for json.JSONDecodeError,
\* [ok |-> FALSE, ...]
json_loads(s) ==
    IF StartsWith(s, <<BOM>>) THEN JFail
    ELSE WholeText(s, ScanOnce(s, JsonWs(s, 1)))

(***************************************************************************)
(* The outcome of a call: the value it returns, or the exception it raises *)
(***************************************************************************)
Return(val) == [exc |-> "", val |-> val]
Raise(exc) == [exc |-> exc, val |-> None]

\* json.loads as a call: raises json.JSONDecodeError when the text does not decode
Decoded(r) == IF r.ok THEN Return(r.v) ELSE Raise("JSONDecodeError")

LoadsOutcome(s) == Decoded(json_loads(s))

(***************************************************************************)
(* Strategy 2: _parse_standard                                             *)
(***************************************************************************)
parse_standard(raw_input) == LoadsOutcome(Strip(raw_input))

(***************************************************************************)
(* The balanced-bracket pattern of _parse_with_deep_unescape and           *)
(* _parse_with_extraction:                                                 *)
(*   (\{(?:[^{}]|(?:\{[^{}]*\}))*\}|\[(?:[^\[\]]|(?:\[[^\[\]]*\]))*\])     *)
(***************************************************************************)
\* \{[^{}]*\} from the character after the inner opener: the index after the
\* closer, 0 when the group does not match
InnerEnd(s, j, open, close) ==
    LET k == NextIn(s, j, {open, close})
    IN IF k = 0 \/ s[k] = open THEN 0 ELSE k + 1

RECURSIVE OuterEnd(_, _, _, _)
\* (?:[^{}]|(?:\{[^{}]*\}))*\} from the character after the outer opener: the
\* index after the closer, 0 when the pattern does not match
OuterEnd(s, j, open, close) ==
    LET k == NextIn(s, j, {open, close})
    IN IF k = 0 THEN 0
       ELSE IF s[k] = close THEN k + 1
       ELSE IF InnerEnd(s, k + 1, open, close) = 0 THEN 0
       ELSE OuterEnd(s, InnerEnd(s, k + 1, open, close), open, close)

BlockAt(s, i) ==
    LET e == IF s[i] = "{" THEN OuterEnd(s, i + 1, "{", "}")
             ELSE IF s[i] = "[" THEN OuterEnd(s, i + 1, "[", "]")
             ELSE 0
    IN IF e = 0 THEN NoMatch ELSE Match(e, SubSeq(s, i, e - 1))

\* re.findall(json_pattern, s, re.DOTALL)
json_blocks(s) == ReFindAll(s, [i \in 1..Len(s) |-> BlockAt(s, i)])

(***************************************************************************)
(* Strategy 3: _parse_with_deep_unescape                                   *)
(***************************************************************************)
max_iterations == 10

W_cards == <<"c", "a", "r", "d", "s">>

BslRunEnd(s, i) == RunEnd(s, i, {BSL})

\* re.sub(r'(\\\\+)"', lambda m: m.group(1)[:-2] + '\\"' if len(m.group(1)) > 2
\*        else '\\"', content): two or more backslashes before a quote lose one
ReduceQuoteEscapes(content) ==
    ReSub(content,
          [i \in 1..Len(content) |->
              LET e == BslRunEnd(content, i)
                  group1 == SubSeq(content, i, e - 1)
              IN IF e - i >= 2 /\ e <= Len(content) /\ content[e] = QUOTE
                 THEN Match(e + 1,
                            IF Len(group1) > 2
                            THEN SubSeq(group1, 1, Len(group1) - 2) \o <<BSL, QUOTE>>
                            ELSE <<BSL, QUOTE>>)
                 ELSE NoMatch])

\* lines 143-149: the replacements every pass ends with
ReduceOtherEscapes(content) ==
    LET c1 == Replace(content, <<BSL, BSL, "n">>, <<BSL, "n">>)
        c2 == Replace(c1, <<BSL, BSL, "t">>, <<BSL, "t">>)
        c3 == Replace(c2, <<BSL, BSL, "r">>, <<BSL, "r">>)
    IN Replace(c3, <<BSL, BSL, BSL, BSL>>, <<BSL, BSL>>)

\* FlexibleJSONParser has no method _is_valid_json: line 138, its only mention,
\* raises AttributeError when it is evaluated
HasIsValidJson == FALSE

LoopDone(content, iteration, trace) ==
    [exc |-> "", content |-> content, iteration |-> iteration, trace |-> trace]

RECURSIVE UnescapeLoop(_, _, _)
RECURSIVE LoopNext(_, _, _, _)

\* lines 134-141: the quote reductions of one pass
QuotePass(content) ==
    IF Contains(content, <<BSL, BSL, QUOTE>>) THEN ReduceQuoteEscapes(content)
    ELSE IF Contains(content, <<BSL, QUOTE>>) /\ ~json_loads(content).ok
    THEN Replace(content, <<BSL, QUOTE>>, <<QUOTE>>)
    ELSE content

\* lines 127-156: the reduction loop; trace holds the content after each pass
UnescapeLoop(content, iteration, trace) ==
    IF ~(iteration < max_iterations) THEN LoopDone(content, iteration, trace)
    ELSE IF ~Contains(content, <<BSL, BSL>>) /\ ~Contains(content, <<BSL, QUOTE>>)
    THEN LoopDone(content, iteration, trace)
    ELSE IF ~Contains(content, <<BSL, BSL, QUOTE>>) /\ Contains(content, <<BSL, QUOTE>>)
            /\ ~HasIsValidJson
    THEN [exc |-> "AttributeError", content |-> content, iteration |-> iteration,
          trace |-> trace]
    ELSE LoopNext(content, iteration, trace, ReduceOtherEscapes(QuotePass(content)))

\* lines 151-156: the pass has made reduced of content; the loop ends when
\* nothing has changed
LoopNext(content, iteration, trace, reduced) ==
    IF reduced = content THEN LoopDone(content, iteration, trace)
    ELSE UnescapeLoop(reduced, iteration + 1, Append(trace, reduced))

\* a variant of the scan that takes any block that decodes
AnyDecoded(r) == IF r.ok THEN r.v ELSE None

\* lines 170-181: what a decoded block gives: the dict with 'cards', the
\* non-empty list of dicts under 'cards', or None
CardsIn(r) ==
    IF r.ok /\ IsDict(r.v) /\ HasKey(r.v, W_cards) THEN r.v
    ELSE IF r.ok /\ IsList(r.v) /\ r.v.v # <<>> /\ \A k \in 1..Len(r.v.v) : IsDict(r.v.v[k])
    THEN PyDict(<< <<W_cards, r.v>> >>)
    ELSE None

\* lines 168-183: the first block that decodes to a dict with 'cards' or to a
\* non-empty list of dicts
ScanBlocks(blocks) ==
    IF \E n \in 1..Len(blocks) : CardsIn(json_loads(blocks[n])) # None
    THEN CardsIn(json_loads(blocks[
             CHOOSE n \in 1..Len(blocks) :
                 /\ CardsIn(json_loads(blocks[n])) # None
                 /\ \A k \in 1..(n - 1) : CardsIn(json_loads(blocks[k])) = None]))
    ELSE None

\* lines 158-183: after the loop, content is decoded, or scanned for blocks
AfterLoop(loop, r) ==
    IF loop.exc # ""
    THEN [out |-> Raise(loop.exc), iteration |-> loop.iteration,
          trace |-> loop.trace, scanned |-> FALSE]
    ELSE IF r.ok
    THEN [out |-> Return(r.v), iteration |-> loop.iteration,
          trace |-> loop.trace, scanned |-> FALSE]
    ELSE [out |-> Return(ScanBlocks(json_blocks(loop.content))),
          iteration |-> loop.iteration, trace |-> loop.trace, scanned |-> TRUE]

Resolved(loop) == AfterLoop(loop, json_loads(loop.content))

\* what _parse_with_deep_unescape does with raw_input: its outcome, the number
\* of passes, the content after each pass, and whether the block scan ran
deep_unescape_run(raw_input) == Resolved(UnescapeLoop(Strip(raw_input), 0, <<>>))

parse_with_deep_unescape(raw_input) == deep_unescape_run(raw_input).out

(***************************************************************************)
(* Strategy 4: _parse_with_cleanup                                         *)
(***************************************************************************)
FENCE == <<TICK, TICK, TICK>>
W_json == <<"j", "s", "o", "n">>

\* the LLM prefixes of _clean_json_string, in the order of the list
prefixes ==
    << <<"H", "e", "r", "e", " ", "i", "s", " ", "t", "h", "e", " ", "J", "S", "O", "N", ":">>,
       <<"H", "e", "r", "e", "'", "s", " ", "t", "h", "e", " ", "r", "e", "s", "u", "l", "t", ":">>,
       <<"T", "h", "e", " ", "J", "S", "O", "N", " ", "o", "u", "t", "p", "u", "t", " ", "i", "s", ":">>,
       <<"J", "S", "O", "N", ":">>,
       <<"O", "u", "t", "p", "u", "t", ":">>,
       <<"R", "e", "s", "u", "l", "t", ":">> >>

RECURSIVE StripPrefixes(_, _)
\* lines 339-341: each prefix in turn, on the string the earlier ones left
StripPrefixes(raw_string, n) ==
    IF n > Len(prefixes) THEN raw_string
    ELSE IF StartsWith(Strip(raw_string), prefixes[n])
    THEN StripPrefixes(Strip(From(raw_string, Len(prefixes[n]) + 1)), n + 1)
    ELSE StripPrefixes(raw_string, n + 1)

\* s.rfind(c) + 1: the last 1-based index of c, 0 when c is not in s
RFind(s, c) == LastIdx(1, Len(s), LAMBDA k : s[k] = c)

\* lines 322-324: the byte-order mark goes
BomRemoved(s) == IF StartsWith(s, <<BOM>>) THEN From(s, 2) ELSE s

\* re.sub(r'```json?\s*', '', raw_string)
OpeningFencesRemoved(s) ==
    ReSub(s, [i \in 1..Len(s) |->
        IF MatchAt(s, i, FENCE \o <<"j", "s", "o">>)
        THEN Match(SkipWs(s, IF MatchAt(s, i + 6, <<"n">>) THEN i + 7 ELSE i + 6), <<>>)
        ELSE NoMatch])

\* re.sub(r'\s*```', '', raw_string)
ClosingFencesRemoved(s) ==
    ReSub(s, [i \in 1..Len(s) |->
        IF MatchAt(s, SkipWs(s, i), FENCE)
        THEN Match(SkipWs(s, i) + 3, <<>>)
        ELSE NoMatch])

\* re.sub(r',\s*}', '}', raw_string), and the same for ]
TrailingCommasRemoved(s, closer) ==
    ReSub(s, [i \in 1..Len(s) |->
        IF s[i] = "," /\ MatchAt(s, SkipWs(s, i + 1), <<closer>>)
        THEN Match(SkipWs(s, i + 1) + 1, <<closer>>)
        ELSE NoMatch])

\* lines 350-354: what follows last_close goes, if it is text that does not
\* start with a closing brace or bracket
CutAfter(s, last_close) ==
    LET after_json == Strip(From(s, last_close + 1))
    IN IF last_close > 1 /\ after_json # <<>>
          /\ ~StartsWith(after_json, <<"}">>) /\ ~StartsWith(after_json, <<"]">>)
       THEN SubSeq(s, 1, last_close)
       ELSE s

\* lines 347-354: the text after the last closing brace or bracket goes
TrailingTextRemoved(s) ==
    CutAfter(s, IF RFind(s, "}") > RFind(s, "]") THEN RFind(s, "}") ELSE RFind(s, "]"))

clean_json_string(raw_string) ==
    Strip(TrailingTextRemoved(
        TrailingCommasRemoved(
            TrailingCommasRemoved(
                StripPrefixes(ClosingFencesRemoved(OpeningFencesRemoved(BomRemoved(raw_string))),
                              1),
                "}"),
            "]")))

\* a variant of the cleanup normalizer that catches the decoder's error and
\* returns None, as the resolver, the extractor and the repairer do
parse_with_cleanup_quiet(raw_input) ==
    Return(json_loads(clean_json_string(raw_input)).v)

parse_with_cleanup(raw_input) == LoadsOutcome(clean_json_string(raw_input))

(***************************************************************************)
(* Strategy 5: _parse_with_extraction                                      *)
(***************************************************************************)
RECURSIVE InsertByLen(_, _)
\* m into a list sorted by decreasing length, after the items as long as it
InsertByLen(sorted, m) ==
    IF sorted = <<>> THEN <<m>>
    ELSE IF Len(Head(sorted)) >= Len(m) THEN <<Head(sorted)>> \o InsertByLen(Tail(sorted), m)
    ELSE <<m>> \o sorted

\* a variant that tries the matches in the order of the text
TextOrder(matches, n, sorted) == matches

RECURSIVE SortByLen(_, _, _)
\* matches_with_size.sort(key=lambda x: x[1], reverse=True): a stable sort
SortByLen(matches, n, sorted) ==
    IF n > Len(matches) THEN sorted
    ELSE SortByLen(matches, n + 1, InsertByLen(sorted, matches[n]))

RECURSIVE FirstDecodable(_, _)
\* lines 371-376 / 380-385: the index of the first candidate that decodes, 0 if none
FirstDecodable(candidates, n) ==
    IF n > Len(candidates) THEN 0
    ELSE IF json_loads(candidates[n]).ok THEN n
    ELSE FirstDecodable(candidates, n + 1)

\* (.*?)\s*``` from p: the first position from which whitespace and a fence follow
LazyGroupEnd(s, p) == FirstIdx(p, Len(s), LAMBDA q : MatchAt(s, SkipWs(s, q), FENCE))

\* the match of ```<lang>\s*(.*?)\s*``` whose group starts after position j
FencedAt(s, j) ==
    LET start == SkipWs(s, j)
        p == LazyGroupEnd(s, start)
    IN IF p = 0 THEN NoMatch ELSE Match(SkipWs(s, p) + 3, SubSeq(s, start, p - 1))

\* re.findall(r'```(?:json)?\s*(.*?)\s*```', raw_input, re.DOTALL)
code_blocks(s) ==
    ReFindAll(s, [i \in 1..Len(s) |->
        IF ~MatchAt(s, i, FENCE) THEN NoMatch
        ELSE IF MatchAt(s, i + 3, W_json) /\ FencedAt(s, i + 7).ok THEN FencedAt(s, i + 7)
        ELSE FencedAt(s, i + 3)])

\* lines 371-385: the first of the blocks (the longest first) that decodes,
\* else the first fenced segment that decodes; n and k are their indices
Extracted(matches, blocks, n, k) ==
    IF n # 0 THEN [out |-> Return(json_loads(matches[n]).v), matches |-> matches,
                   chosen |-> n, fenced |-> FALSE]
    ELSE IF k # 0 THEN [out |-> Return(json_loads(blocks[k]).v), matches |-> matches,
                        chosen |-> 0, fenced |-> TRUE]
    ELSE [out |-> Return(None), matches |-> matches, chosen |-> 0, fenced |-> TRUE]

ExtractedFrom(matches, blocks) ==
    Extracted(matches, blocks, FirstDecodable(matches, 1), FirstDecodable(blocks, 1))

extraction_run(raw_input) ==
    ExtractedFrom(SortByLen(json_blocks(raw_input), 1, <<>>), code_blocks(raw_input))

parse_with_extraction(raw_input) == extraction_run(raw_input).out

(***************************************************************************)
(* Strategy 6: _parse_with_repair                                          *)
(***************************************************************************)
\* the end of the \w run that starts at i
WordEnd(s, i) == RunEnd(s, i, WordChars)

\* re.sub(r'"([^"]*)":\s*"([^"]*)"([^",}\]]*)"', replacer, json_str)
fix_unescaped_quotes(json_str) ==
    ReSub(json_str, [i \in 1..Len(json_str) |->
        LET s == json_str
            k1 == NextIn(s, i + 1, {QUOTE})
            j == SkipWs(s, k1 + 2)
            k2 == NextIn(s, j + 1, {QUOTE})
            e == NextIn(s, k2 + 1, {QUOTE, ",", "}", "]"})
            key == SubSeq(s, i + 1, k1 - 1)
            value_start == SubSeq(s, j + 1, k2 - 1)
            value_end == SubSeq(s, k2 + 1, e - 1)
            value_end_escaped == Replace(value_end, <<QUOTE>>, <<BSL, QUOTE>>)
        IN IF /\ s[i] = QUOTE
              /\ k1 # 0
              /\ MatchAt(s, k1 + 1, <<":">>)
              /\ MatchAt(s, j, <<QUOTE>>)
              /\ k2 # 0
              /\ e # 0
              /\ s[e] = QUOTE
           THEN Match(e + 1, <<QUOTE>> \o key \o <<QUOTE, ":", " ", QUOTE>> \o value_start
                             \o value_end_escaped \o <<QUOTE>>)
           ELSE NoMatch])

\* re.sub(r'(\w+):', r'"\1":', repaired)
quote_keys(repaired) ==
    ReSub(repaired, [i \in 1..Len(repaired) |->
        LET e == WordEnd(repaired, i)
        IN IF e > i /\ MatchAt(repaired, e, <<":">>)
           THEN Match(e + 1, <<QUOTE>> \o SubSeq(repaired, i, e - 1) \o <<QUOTE, ":">>)
           ELSE NoMatch])

fix_single_quotes(json_str) ==
    LET \* re.sub(r"'(\w+)':", r'"\1":', result)
        r1 == ReSub(json_str, [i \in 1..Len(json_str) |->
                 LET e == WordEnd(json_str, i + 1)
                 IN IF json_str[i] = "'" /\ e > i + 1 /\ MatchAt(json_str, e, <<"'", ":">>)
                    THEN Match(e + 2, <<QUOTE>> \o SubSeq(json_str, i + 1, e - 1) \o <<QUOTE, ":">>)
                    ELSE NoMatch])
        \* re.sub(r":\s*'([^']*)'", r': "\1"', result)
    IN ReSub(r1, [i \in 1..Len(r1) |->
           LET j == SkipWs(r1, i + 1)
               k == NextIn(r1, j + 1, {"'"})
           IN IF r1[i] = ":" /\ MatchAt(r1, j, <<"'">>) /\ k # 0
              THEN Match(k + 1, <<":", " ", QUOTE>> \o SubSeq(r1, j + 1, k - 1) \o <<QUOTE>>)
              ELSE NoMatch])

repair_json_string(raw_input) ==
    fix_single_quotes(quote_keys(fix_unescaped_quotes(Strip(raw_input))))

\* a variant of the repairer that does not catch the decoder's error
parse_with_repair_uncaught(raw_input) == LoadsOutcome(repair_json_string(raw_input))

\* lines 406-410: JSONDecodeError is caught and None returned
parse_with_repair(raw_input) ==
    LET r == json_loads(repair_json_string(raw_input))
    IN IF r.ok THEN Return(r.v) ELSE Return(None)

(***************************************************************************)
(* Strategy 1: _looks_like_n8n and _parse_n8n_format                       *)
(***************************************************************************)
W_output == <<"o", "u", "t", "p", "u", "t">>
W_data == <<"d", "a", "t", "a">>
W_result == <<"r", "e", "s", "u", "l", "t">>

\* a variant of _looks_like_n8n that asks for a code fence as well as the key
looks_like_fenced_n8n(raw_input) ==
    /\ Contains(raw_input, <<QUOTE>> \o W_output \o <<QUOTE>>)
    /\ Contains(raw_input, FENCE)

looks_like_n8n(raw_input) ==
    LET quoted == <<QUOTE>> \o W_output \o <<QUOTE>>
        stripped == Strip(raw_input)
        first100 == SubSeq(stripped, 1, IF Len(stripped) < 100 THEN Len(stripped) ELSE 100)
    IN \/ Contains(raw_input, quoted)
       \/ StartsWith(stripped, <<"[", "{">>) /\ Contains(first100, quoted)

\* re.findall(r'```json\s*(.*?)\s*```', output_content, re.DOTALL)
json_matches(output_content) ==
    ReFindAll(output_content, [i \in 1..Len(output_content) |->
        IF MatchAt(output_content, i, FENCE \o W_json)
        THEN FencedAt(output_content, i + 7)
        ELSE NoMatch])

\* lines 247-270: fixed_json, the block with its escape levels reduced by hand
fixed_json(json_str) ==
    LET f1 == IF Contains(json_str, <<BSL, BSL, QUOTE>>)
              THEN Replace(json_str, <<BSL, BSL, QUOTE>>, <<BSL, QUOTE>>)
              ELSE json_str
        f2 == Replace(f1, <<BSL, "n">>, <<"\n">>)
        f3 == Replace(f2, <<BSL, "t">>, <<"\t">>)
        f4 == Replace(f3, <<BSL, "r">>, <<"\r">>)
    IN \* re.sub(r'\\\\(?!")', r'\\', fixed_json)
       ReSub(f4, [i \in 1..Len(f4) |->
           IF MatchAt(f4, i, <<BSL, BSL>>) /\ ~MatchAt(f4, i + 2, <<QUOTE>>)
           THEN Match(i + 2, <<BSL>>)
           ELSE NoMatch])

\* lines 231-282: inner_data of one fenced block; ok is FALSE when the block is
\* skipped (continue); resolver tells whether _parse_with_deep_unescape was called
BlockDecoded(v, resolver) == [ok |-> TRUE, v |-> v, resolver |-> resolver]

\* a variant in which a block that cannot be decoded is kept, as a null record
BlockKept == [ok |-> TRUE, v |-> None, resolver |-> TRUE]

BlockSkipped == [ok |-> FALSE, v |-> None, resolver |-> TRUE]

\* lines 271-280: the block as json.loads(fixed_json) gives it
FixedByHand(fixed) == IF fixed.ok THEN BlockDecoded(fixed.v, TRUE) ELSE BlockSkipped

\* lines 236-282: the block as the resolver gives it (du is its outcome), else
\* by hand
ResolvedBlock(json_str, du) ==
    IF du.exc # "" THEN BlockSkipped
    ELSE IF Truthy(du.val) THEN BlockDecoded(du.val, TRUE)
    ELSE FixedByHand(json_loads(fixed_json(json_str)))

\* lines 233-282: the block as json.loads gives it (first is its result), else
\* as the resolver does
DecodedBlock(json_str, first) ==
    IF first.ok THEN BlockDecoded(first.v, FALSE)
    ELSE ResolvedBlock(json_str, parse_with_deep_unescape(json_str))

block_data(json_str) == DecodedBlock(json_str, json_loads(json_str))

\* a variant of the extractor that takes only the first card of a block
first_card_only(inner_data) ==
    IF IsDict(inner_data) /\ HasKey(inner_data, W_cards)
    THEN IF IsList(DictGet(inner_data, W_cards)) /\ DictGet(inner_data, W_cards).v # <<>>
         THEN <<DictGet(inner_data, W_cards).v[1]>>
         ELSE <<>>
    ELSE IF IsList(inner_data) THEN inner_data.v
    ELSE <<inner_data>>

\* lines 284-303: the cards one decoded block adds to all_cards
block_cards(inner_data) ==
    IF IsDict(inner_data) /\ HasKey(inner_data, W_cards)
    THEN IF IsList(DictGet(inner_data, W_cards)) THEN DictGet(inner_data, W_cards).v ELSE <<>>
    ELSE IF IsList(inner_data) THEN inner_data.v
    ELSE <<inner_data>>

\* all_cards and parsing_attempts after the block b
WithBlock(acc, b) ==
    [cards |-> acc.cards \o (IF b.ok THEN block_cards(b.v) ELSE <<>>),
     attempts |-> acc.attempts \o (IF b.resolver THEN <<"deep_unescape">> ELSE <<>>)]

RECURSIVE n8n_blocks(_, _, _)
\* lines 231-303 over the blocks of one output string
n8n_blocks(blocks, n, acc) ==
    IF n > Len(blocks) THEN acc
    ELSE n8n_blocks(blocks, n + 1, WithBlock(acc, block_data(blocks[n])))

\* lines 220-225: the item's output, else its data or result
output_of(item) ==
    LET empty == PyStr(<<>>)
        output == DictGetDefault(item, W_output, empty)
        data == DictGetDefault(item, W_data, empty)
    IN IF Truthy(output) THEN output
       ELSE IF Truthy(data) THEN data
       ELSE DictGetDefault(item, W_result, empty)

RECURSIVE n8n_items(_, _, _)
\* lines 216-303 over outer_data; re.findall raises TypeError on an output that
\* is not a string
n8n_items(outer_data, n, acc) ==
    IF n > Len(outer_data) THEN [exc |-> "", cards |-> acc.cards, attempts |-> acc.attempts]
    ELSE IF ~IsDict(outer_data[n]) \/ ~Truthy(output_of(outer_data[n]))
    THEN n8n_items(outer_data, n + 1, acc)
    ELSE IF ~IsStr(output_of(outer_data[n]))
    THEN [exc |-> "TypeError", cards |-> acc.cards, attempts |-> acc.attempts]
    ELSE n8n_items(outer_data, n + 1,
             n8n_blocks(json_matches(output_of(outer_data[n]).v), 1, acc))

\* lines 305-312: the cards under 'cards', or None when there are none
ExtractorResult(r) ==
    IF r.exc # "" THEN [out |-> Raise(r.exc), attempts |-> r.attempts]
    ELSE IF r.cards # <<>>
    THEN [out |-> Return(PyDict(<< <<W_cards, PyList(r.cards)>> >>)), attempts |-> r.attempts]
    ELSE [out |-> Return(None), attempts |-> r.attempts]

\* lines 207-312 on the decoded raw_input
ExtractorOn(outer) ==
    IF ~outer.ok THEN [out |-> Raise("JSONDecodeError"), attempts |-> <<"n8n_triple_layer">>]
    ELSE ExtractorResult(
             n8n_items(IF IsList(outer.v) THEN outer.v.v ELSE <<outer.v>>, 1,
                       [cards |-> <<>>, attempts |-> <<"n8n_triple_layer">>]))

\* what _parse_n8n_format does with raw_input: its outcome and what it appends
\* to parsing_attempts
n8n_run(raw_input) == ExtractorOn(json_loads(Strip(raw_input)))

parse_n8n_format(raw_input) == n8n_run(raw_input).out

(***************************************************************************)
(* The inputs: texts a caller can pass to parse, built the way the         *)
(* automation tool and its callers build them                              *)
(***************************************************************************)
\* the most cards in one card list
MaxCards == 3
\* the most serialization layers a card list is passed through
MaxEscape == 2

W_front == <<"f", "r", "o", "n", "t">>
W_deck_name == <<"d", "e", "c", "k", "_", "n", "a", "m", "e">>
W_tags == <<"t", "a", "g", "s">>
W_images == <<"i", "m", "a", "g", "e", "s">>

\* sep.join(seqs)
Join(seqs, sep) ==
    Flatten([n \in 1..Len(seqs) |-> IF n = 1 THEN seqs[n] ELSE sep \o seqs[n]], 1, Len(seqs))

\* one serialization layer over the characters of a string
EscapeChars(chars) ==
    Flatten([n \in 1..Len(chars) |->
                CASE chars[n] = QUOTE -> <<BSL, QUOTE>>
                  [] chars[n] = BSL -> <<BSL, BSL>>
                  [] chars[n] = "\n" -> <<BSL, "n">>
                  [] chars[n] = "\t" -> <<BSL, "t">>
                  [] chars[n] = "\r" -> <<BSL, "r">>
                  [] OTHER -> <<chars[n]>>], 1, Len(chars))

RECURSIVE Dumps(_)
\* the JSON text of a value (json.dumps with compact separators)
Dumps(x) ==
    CASE x.t = "null" -> W_null
      [] x.t = "bool" -> IF x.v = <<"true">> THEN W_true ELSE W_false
      [] x.t = "num" -> x.v
      [] x.t = "str" -> <<QUOTE>> \o EscapeChars(x.v) \o <<QUOTE>>
      [] x.t = "list" -> <<"[">> \o Join([n \in 1..Len(x.v) |-> Dumps(x.v[n])], <<",">>) \o <<"]">>
      [] x.t = "dict" ->
            <<"{">> \o Join([n \in 1..Len(x.v) |->
                                <<QUOTE>> \o EscapeChars(x.v[n][1]) \o <<QUOTE, ":">>
                                \o Dumps(x.v[n][2])], <<",">>) \o <<"}">>

CardNames == <<"a", "b", "c", "d", "e", "f", "g", "h", "i", "j">>

\* the n-th card
Card(n) == PyDict(<< <<W_front, PyStr(<<CardNames[n]>>)>> >>)

\* count cards, from the first-th on
CardsFrom(first, count) == [k \in 1..count |-> Card(first + k - 1)]

Cards(items) == PyDict(<< <<W_cards, PyList(items)>> >>)

\* a card list of n cards under the cards key
Deck(n) == Cards(CardsFrom(1, n))

\* a card whose fields nest a list in a dict in a list
DeepCard ==
    PyDict(<< <<W_images, PyList(<< PyDict(<< <<W_tags, PyList(<<PyStr(<<"x">>)>>)>> >>) >>)>> >>)

\* a card with a dict in a dict, a list in a list and a list of sub-records
NestedCard ==
    PyDict(<< <<W_data, PyDict(<< <<W_data, PyDict(<< <<W_front, PyNum(<<"1">>)>> >>)>> >>)>>,
              <<W_tags, PyList(<<PyList(<<PyNum(<<"1">>)>>)>>)>>,
              <<W_images, PyList(<<Card(2)>>)>> >>)

\* a card whose text holds closing brackets after a comma
CommaCard == PyDict(<< <<W_front, PyStr(<<"a", "]", ",", "}">>)>> >>)

\* text in one level of markdown JSON fencing
Fenced(text) == FENCE \o W_json \o <<"\n">> \o text \o <<"\n">> \o FENCE

\* a wrapper object of the automation tool's envelope
Wrapper(key, output) == PyDict(<< <<key, output>> >>)

RECURSIVE Sum(_)
Sum(counts) == IF counts = <<>> THEN 0 ELSE Head(counts) + Sum(Tail(counts))

\* the cards in the blocks before block b of wrapper w
Before(shape, w, b) ==
    Sum(Flatten(shape, 1, w - 1)) + Sum(SubSeq(shape[w], 1, b - 1))

\* the envelope of the shape: one wrapper per entry, its output holding one
\* fenced block per count, the cards numbered through the whole envelope
EnvelopeOf(shape) ==
    PyList([w \in 1..Len(shape) |->
        Wrapper(W_output,
                PyStr(Join([b \in 1..Len(shape[w]) |->
                               Fenced(Dumps(Cards(CardsFrom(1 + Before(shape, w, b),
                                                            shape[w][b]))))],
                           <<" ">>)))])

Shapes ==
    {<< <<i>>, <<j>> >> : i, j \in 0..MaxCards}
    \cup {<< <<i, j>> >> : i, j \in 1..MaxCards}
    \cup {<< <<1>>, <<1, 1>> >>, << <<1>>, <<1>>, <<1>> >>}

\* a block of two cards with its braces unbalanced in one of five ways
Corrupted(kind) ==
    LET good == Dumps(Deck(2))
    IN CASE kind = 1 -> SubSeq(good, 1, Len(good) - 1)
         [] kind = 2 -> SubSeq(good, 1, Len(good) - 2)
         [] kind = 3 -> <<"{">> \o good
         [] kind = 4 -> good \o <<"}">>
         [] kind = 5 -> SubSeq(good, 1, Len(good) - 17)

CorruptionKinds == 1..5

\* the envelope whose first block is corrupted and whose second holds MaxCards cards
CorruptedEnvelope(kind) ==
    PyList(<< Wrapper(W_output, PyStr(Fenced(Corrupted(kind)))),
              Wrapper(W_output, PyStr(Fenced(Dumps(Cards(CardsFrom(3, MaxCards)))))) >>)

\* values a wrapper's output field can hold that are not strings
NonStrings == {PyNum(<<"5">>), PyList(<<PyNum(<<"1">>)>>), PyBool("true")}

\* the envelope whose first wrapper's field holds x and whose second holds a
\* block of n cards
MixedEnvelope(key, x, n) ==
    PyList(<< Wrapper(key, x), Wrapper(W_output, PyStr(Fenced(Dumps(Deck(n))))) >>)

\* envelopes whose first wrapper holds a value that is not a string and whose
\* second holds a block of one card
NonStringEnvelopes ==
    {Dumps(MixedEnvelope(key, x, 1)) : key \in {W_output, W_data}, x \in NonStrings}

\* the texts of the envelopes with a corrupted first block
CorruptedEnvelopes == [kind \in CorruptionKinds |-> Dumps(CorruptedEnvelope(kind))]

\* the cards in the envelope of the shape
Total(shape) == Sum(Flatten(shape, 1, Len(shape)))

\* the texts of the envelopes
EnvelopeTexts == [shape \in Shapes |-> Dumps(EnvelopeOf(shape))]

RECURSIVE Escaped(_, _)
\* text passed through k serialization layers
Escaped(text, k) == IF k = 0 THEN text ELSE Escaped(EscapeChars(text), k - 1)

ValidDecks ==
    {Dumps(Deck(n)) : n \in 0..MaxCards}
    \cup {Dumps(PyDict(<< <<W_deck_name, PyStr(<<"d">>)>>, <<W_cards, PyList(CardsFrom(1, n))>> >>))
             : n \in 1..MaxCards}
    \cup {Dumps(PyDict(<< <<W_cards, PyList(CardsFrom(1, 1))>>,
                         <<key, PyStr(Fenced(Dumps(PyList(CardsFrom(2, n)))))>> >>))
             : key \in {W_output, W_data}, n \in {0, 1}}
    \cup {Dumps(PyDict(<< <<W_cards, PyList(CardsFrom(1, 1))>>, <<W_output, x>> >>))
             : x \in {PyNum(<<"5">>), PyStr(<<"x">>)}}

ValidLists ==
    {Dumps(PyList(CardsFrom(1, n))) : n \in 0..MaxCards}
    \cup {Dumps(PyList(<<DeepCard>>)), Dumps(Cards(<<DeepCard>>))}
    \cup {Dumps(PyList(<<NestedCard>>)), Dumps(PyList(<<CommaCard>>))}
    \cup {Dumps(PyList(<<PyDict(<< <<W_output, PyStr(<<"x">>)>> >>)>>))}

FencedLists == {Fenced(text) : text \in ValidLists \cup {Dumps(Deck(n)) : n \in 0..MaxCards}}

Envelopes ==
    {EnvelopeTexts[shape] : shape \in Shapes}
    \cup {CorruptedEnvelopes[kind] : kind \in CorruptionKinds}
    \cup NonStringEnvelopes
    \cup {Dumps(MixedEnvelope(key, PyStr(Fenced(Dumps(PyList(CardsFrom(2, 1))))), 1))
             : key \in {W_data, W_result}}
    \cup {Dumps(MixedEnvelope(W_output, PyStr(text), n)) :
             text \in {<<"x">>, Fenced(Dumps(Deck(0))), Fenced(<<"5">>)}, n \in {0, 1}}
    \cup {Dumps(PyList(<< Wrapper(W_output,
                              PyStr(Fenced(Dumps(Deck(1))) \o <<" ">>
                                    \o Fenced(Dumps(PyList(CardsFrom(2, 2)))))) >>))}
    \cup {Dumps(PyList(<< Wrapper(W_output, PyStr(Fenced(Dumps(Card(1))))) >>))}
    \cup {Dumps(Wrapper(W_output, PyStr(Fenced(Dumps(Deck(1))))))}

EscapedInputs ==
    {Escaped(Dumps(Deck(1)), k) : k \in 1..MaxEscape}
    \cup {Dumps(PyList(<< Wrapper(W_output, PyStr(Fenced(Escaped(Dumps(Deck(1)), k)))) >>))
             : k \in 1..MaxEscape}
    \cup {<<"[", "1", ",", BSL, BSL, "n", "2", "]">>,
          <<BSL, BSL, BSL, BSL, BSL, BSL, BSL, BSL>>,
          <<BSL, QUOTE, "h", "i", BSL, QUOTE>>,
          <<"[", QUOTE, "a", BSL, BSL, BSL, BSL, BSL, BSL, BSL, BSL, "b", QUOTE, "]">>,
          <<"[", QUOTE, "a", BSL, BSL, BSL, QUOTE, "]">>}

Prose ==
    {<<"h", "e", "l", "l", "o", " ", "w", "o", "r", "l", "d">>,
     <<"n", "o", " ", "c", "a", "r", "d", "s", " ", "h", "e", "r", "e", ".">>,
     <<"s", "a", "y", " ", QUOTE, "o", "u", "t", "p", "u", "t", QUOTE>>,
     <<"J", "S", "O", "N", ":", " ", "n", "u", "l", "l">>,
     <<"J", "S", "O", "N", ":", " ", "4", "2">>,
     FENCE \o W_json \o <<" ">> \o W_null \o FENCE,
     <<>>}

Scalars == {W_null, <<"4", "2">>, <<QUOTE, "h", "i", QUOTE>>, <<"{", "}">>}

Repairable ==
    {<<"{", "'", "a", "'", ":", " ", "'", "b", "'", "}">>,
     <<"{", "f", "r", "o", "n", "t", ":", " ", "1", "}">>,
     <<"x", " ">> \o Dumps(Card(1)) \o <<" ", "y">>,
     <<"x", " ">> \o Dumps(PyList(<<PyNum(<<"1">>)>>)) \o <<" ">> \o Dumps(PyList(<<PyNum(<<"1">>), PyNum(<<"2">>)>>)),
     <<"{", QUOTE, "a", QUOTE, ":", "1", ",", "}">>,
     <<"O", "u", "t", "p", "u", "t", ":", " ">> \o Dumps(Deck(1)) \o <<" ", "o", "k">>,
     <<"x", " ">> \o Dumps(PyList(<<PyNum(<<"1">>)>>)) \o <<" ">> \o Dumps(Deck(1))
         \o <<" ">> \o Dumps(Deck(2)),
     <<"{", "x", " ", "y", "}", " ", "[", "1", "]">>}

\* a card whose text quotes a word
QuotingCard == PyDict(<< <<W_front, PyStr(<<"a", " ", QUOTE, "b", QUOTE>>)>> >>)

\* texts that decode to something else than a cards list or a list of cards
OtherShapes ==
    {Dumps(Card(1)), Dumps(PyList(<<QuotingCard>>)),
     Dumps(PyDict(<< <<W_data, PyList(CardsFrom(1, 2))>> >>)),
     Dumps(PyDict(<< <<W_cards, PyStr(<<"x">>)>> >>)),
     Dumps(PyDict(<< <<W_cards, PyNum(<<"5">>)>> >>)),
     Dumps(PyDict(<< <<W_tags, PyList(<<>>)>> >>)),
     Dumps(PyBool("false"))}

Inputs ==
    ValidDecks \cup ValidLists \cup FencedLists \cup Envelopes \cup EscapedInputs
    \cup Prose \cup Scalars \cup Repairable \cup OtherShapes

\* source_hint: None, or the hint N8nFlashcardParser passes
Hints == {"None", "n8n"}

(***************************************************************************)
(* N8nFlashcardParser._normalize_flashcard_structure                       *)
(***************************************************************************)
W_back == <<"b", "a", "c", "k">>
W_question == <<"q", "u", "e", "s", "t", "i", "o", "n">>
W_answer == <<"a", "n", "s", "w", "e", "r">>
W_items == <<"i", "t", "e", "m", "s">>
W_flashcards == <<"f", "l", "a", "s", "h", "c", "a", "r", "d", "s">>

\* line 492: the keys that make a dict a single card
CardKeys == <<W_front, W_back, W_question, W_answer>>

\* line 497: the keys a card list is looked for under, in the order of the loop
AliasKeys == <<W_cards, W_data, W_items, W_flashcards>>

\* line 498: key in data and isinstance(data[key], list)
HoldsList(data, key) == HasKey(data, key) /\ IsList(DictGet(data, key))

\* a variant of the loop of lines 497-499 that keeps the last key that holds a
\* list; 0 when none does
LastAlias(data) ==
    IF \E n \in 1..Len(AliasKeys) : HoldsList(data, AliasKeys[n])
    THEN CHOOSE n \in 1..Len(AliasKeys) :
             /\ HoldsList(data, AliasKeys[n])
             /\ \A k \in (n + 1)..Len(AliasKeys) : ~HoldsList(data, AliasKeys[k])
    ELSE 0

\* lines 497-499: the first key of the loop that holds a list; 0 when none does
FirstAlias(data) ==
    IF \E n \in 1..Len(AliasKeys) : HoldsList(data, AliasKeys[n])
    THEN CHOOSE n \in 1..Len(AliasKeys) :
             /\ HoldsList(data, AliasKeys[n])
             /\ \A k \in 1..(n - 1) : ~HoldsList(data, AliasKeys[k])
    ELSE 0

\* line 492: any(key in data for key in ['front', 'back', 'question', 'answer'])
IsSingleCard(data) == \E n \in 1..Len(CardKeys) : HasKey(data, CardKeys[n])

\* lines 495-503: the list under the first alias, or no cards
FromAlias(data, n) ==
    IF n = 0 THEN Cards(<<>>) ELSE PyDict(<< <<W_cards, DictGet(data, AliasKeys[n])>> >>)

\* a variant of the normalizer that looks under the aliases before it takes the
\* dict for a single card
AliasesFirst(data) ==
    IF IsDict(data) /\ HasKey(data, W_cards) THEN data
    ELSE IF IsList(data) THEN PyDict(<< <<W_cards, data>> >>)
    ELSE IF IsDict(data) /\ FirstAlias(data) # 0 THEN FromAlias(data, FirstAlias(data))
    ELSE IF IsDict(data) /\ IsSingleCard(data) THEN Cards(<<data>>)
    ELSE Cards(<<>>)

\* lines 483-503: what the normalizer returns
Normalized(data) ==
    IF IsDict(data) /\ HasKey(data, W_cards) THEN data
    ELSE IF IsList(data) THEN PyDict(<< <<W_cards, data>> >>)
    ELSE IF IsDict(data) /\ IsSingleCard(data) THEN Cards(<<data>>)
    ELSE IF IsDict(data) THEN FromAlias(data, FirstAlias(data))
    ELSE Cards(<<>>)

\* a variant of the normalizer without the isinstance(data, dict) tests: the in
\* operator raises TypeError on a number, a boolean and None
normalize_unguarded(data) ==
    IF data.t \in {"num", "bool", "null"} THEN Raise("TypeError")
    ELSE Return(Normalized(data))

\* N8nFlashcardParser._normalize_flashcard_structure as a call: every in test
\* is behind an isinstance test, so no path raises
normalize_flashcard_structure(data) == Return(Normalized(data))

\* the decoded values the normalizer is called with
Optional(present, key, value) == IF present THEN << <<key, value>> >> ELSE <<>>

CardLists == [key \in {W_cards, W_data, W_items, W_flashcards} |->
                 CASE key = W_cards -> PyList(CardsFrom(1, 1))
                   [] key = W_data -> PyList(CardsFrom(2, 1))
                   [] key = W_items -> PyList(CardsFrom(3, 2))
                   [] key = W_flashcards -> PyList(<<>>)]

\* the value of a field: absent ("no"), a list, or a string
FieldKinds == {"no", "list", "str"}

Field(key, kind) ==
    CASE kind = "no" -> <<>>
      [] kind = "list" -> << <<key, CardLists[key]>> >>
      [] kind = "str" -> << <<key, PyStr(<<"x">>)>> >>

DecodedDicts ==
    {PyDict(Field(W_flashcards, f) \o Field(W_items, i) \o Field(W_data, d)
            \o Optional(q, W_question, PyStr(<<"Q">>)) \o Field(W_cards, c))
        : f \in FieldKinds, i \in FieldKinds, d \in FieldKinds, q \in BOOLEAN,
          c \in FieldKinds}

DecodedValues ==
    DecodedDicts
    \cup {Card(1), PyDict(<< <<W_back, PyStr(<<"A">>)>> >>),
          PyDict(<< <<W_answer, PyStr(<<"A">>)>>, <<W_data, CardLists[W_data]>> >>),
          PyDict(<< <<W_tags, PyList(<<>>)>> >>)}
    \cup {PyList(<<>>), PyList(CardsFrom(1, 2)), PyList(<<PyNum(<<"1">>)>>),
          PyStr(W_cards), PyStr(<<>>), PyNum(<<"4", "2">>), PyNum(<<"0">>),
          PyBool("true"), PyBool("false"), None}

(***************************************************************************)
(* FlexibleJSONParser: one instance, parse called on it time after time    *)
(***************************************************************************)
VARIABLES
    last_strategy_used,   \* self.last_strategy_used ("None" for None)
    parsing_attempts,     \* self.parsing_attempts
    pc,                   \* where the call is: "ready" when there is none, the
                          \* strategy parse is about to try, "all_failed",
                          \* "returned" or "raised"
    raw_input,            \* the call's raw_input
    source_hint,          \* the call's source_hint
    errors,               \* the call's errors list
    tried,                \* the strategies the call has attempted, with their outcomes
    result,               \* the call's outcome, once it has returned or raised
    caller,               \* who has called parse: "parse" for a caller of parse
                          \* itself, or "parse_flashcard_data"
    normalized,           \* the outcome of parse_flashcard_data, once it has one
    direct,               \* a strategy or the normalizer called on its own: the
                          \* method, its argument and its outcome
    owner,                \* concurrent requests: the instance each request uses
    attrs,                \* concurrent requests: the attributes of each instance
    requests,             \* concurrent requests: where each request is, and its locals
    tmp,                  \* the web application: the package files in /tmp, oldest first
    reply                 \* the web application: the last answer of a handler

\* the variables of a parse call on the one instance
parse_vars ==
    <<last_strategy_used, parsing_attempts, pc, raw_input, source_hint, errors, tried,
      result, caller>>

\* the variables of the calls around parse
call_vars == <<normalized, direct>>

\* the variables of the concurrent requests
shared_vars == <<owner, attrs, requests>>

\* the variables of the web application
app_vars == <<tmp, reply>>

vars == <<parse_vars, call_vars, shared_vars, app_vars>>

Pending == [exc |-> "pending", val |-> None]

\* the order of the strategies in parse
StrategyOrder ==
    <<"n8n_triple_layer", "standard", "deep_unescape", "cleanup", "extraction", "repair">>

Strategies == {StrategyOrder[n] : n \in 1..Len(StrategyOrder)}

IndexOf(strategy) == CHOOSE n \in 1..Len(StrategyOrder) : StrategyOrder[n] = strategy

\* a variant of the order in which the cleanup normalizer and the substring
\* extractor change places
NextAfterSwapped(strategy) ==
    CASE strategy = "n8n_triple_layer" -> "standard"
      [] strategy = "standard" -> "deep_unescape"
      [] strategy = "deep_unescape" -> "extraction"
      [] strategy = "extraction" -> "cleanup"
      [] strategy = "cleanup" -> "repair"
      [] strategy = "repair" -> "all_failed"

\* where parse goes when a strategy has failed
NextAfter(strategy) ==
    IF IndexOf(strategy) = Len(StrategyOrder) THEN "all_failed"
    ELSE StrategyOrder[IndexOf(strategy) + 1]

\* the prefix of the strategy's entry in errors
ErrorLabel(strategy) ==
    CASE strategy = "n8n_triple_layer" -> "n8n parsing"
      [] strategy = "standard" -> "Standard parsing"
      [] strategy = "deep_unescape" -> "Deep unescape parsing"
      [] strategy = "cleanup" -> "Cleanup parsing"
      [] strategy = "extraction" -> "Extraction parsing"
      [] strategy = "repair" -> "Repair parsing"

\* line 48: whether parse starts with the envelope extractor
TriesEnvelope(raw, hint) == hint = "n8n" \/ looks_like_n8n(raw)

\* no strategy and no normalizer called on its own
NoCall == [op |-> "None", text |-> <<>>, data |-> None, out |-> Pending]

\* the concurrent requests, and the instances they can use
Requests == {1, 2}

\* lines 23-25: the attributes of an instance after __init__
Fresh == [last_strategy_used |-> "None", parsing_attempts |-> <<>>]

\* a request that has not called parse yet
Idle == [pc |-> "idle", raw_input |-> <<>>, mine |-> <<>>, strategy |-> "None",
         seen |-> "None"]

\* no concurrent requests: each has its own instance and none has started
NoRequests ==
    /\ owner = [r \in Requests |-> r]
    /\ attrs = [i \in Requests |-> Fresh]
    /\ requests = [r \in Requests |-> Idle]

\* lines 23-25: the one instance after __init__, no call on it
NoCalls ==
    /\ last_strategy_used = "None"
    /\ parsing_attempts = <<>>
    /\ pc = "ready"
    /\ raw_input = <<>>
    /\ source_hint = "None"
    /\ errors = <<>>
    /\ tried = <<>>
    /\ result = Pending
    /\ caller = "parse"
    /\ normalized = Pending
    /\ direct = NoCall

\* no handler has answered yet
NoReply == [route |-> "None", data |-> None, status |-> 0, asked |-> <<>>, file |-> <<>>]

\* no file in /tmp, no answer
NoFiles == tmp = <<>> /\ reply = NoReply

Init == NoCalls /\ NoRequests /\ NoFiles

\* a variant of parse without line 41: parsing_attempts is not reset
EnterKeeping(raw, hint, who) ==
    /\ pc = "ready"
    /\ raw_input' = raw
    /\ source_hint' = hint
    /\ errors' = <<>>
    /\ tried' = <<>>
    /\ result' = Pending
    /\ pc' = IF TriesEnvelope(raw, hint) THEN "n8n_triple_layer" ELSE "standard"
    /\ caller' = who
    /\ UNCHANGED <<last_strategy_used, parsing_attempts, call_vars, shared_vars, app_vars>>

\* lines 41-48: parse is called, by who
Enter(raw, hint, who) ==
    /\ pc = "ready"
    /\ raw_input' = raw
    /\ source_hint' = hint
    /\ parsing_attempts' = <<>>
    /\ errors' = <<>>
    /\ tried' = <<>>
    /\ result' = Pending
    /\ pc' = IF TriesEnvelope(raw, hint) THEN "n8n_triple_layer" ELSE "standard"
    /\ caller' = who
    /\ UNCHANGED <<last_strategy_used, call_vars, shared_vars, app_vars>>

\* parse is called
Call(raw, hint) == Enter(raw, hint, "parse")

\* lines 459-461: parse_flashcard_data calls parse with the n8n hint
ParseFlashcardData(raw_data) == Enter(raw_data, "n8n", "parse_flashcard_data")

\* what a strategy that appends only its own name to parsing_attempts does
Run(name, out) == [out |-> out, attempts |-> <<name>>]

\* a variant of the try block without its except clause: an exception raised in
\* the strategy leaves parse
AttemptUncaught(strategy, run) ==
    /\ pc = strategy
    /\ parsing_attempts' = parsing_attempts \o run.attempts
    /\ tried' = Append(tried, [strategy |-> strategy, out |-> run.out])
    /\ IF run.out.exc # ""
       THEN /\ result' = Raise(run.out.exc)
            /\ pc' = "raised"
            /\ UNCHANGED last_strategy_used
       ELSE IF run.out.val # None
       THEN /\ last_strategy_used' = strategy
            /\ result' = Return(run.out.val)
            /\ pc' = "returned"
       ELSE /\ pc' = NextAfter(strategy)
            /\ UNCHANGED <<last_strategy_used, result>>
    /\ UNCHANGED <<errors, raw_input, source_hint, caller, call_vars, shared_vars, app_vars>>

\* one try block of parse: the strategy is called (run is its outcome and what
\* it appends to parsing_attempts); a value that is not None is returned, an
\* exception is added to errors, and otherwise the next strategy is up
Attempt(strategy, run) ==
    /\ pc = strategy
    /\ parsing_attempts' = parsing_attempts \o run.attempts
    /\ tried' = Append(tried, [strategy |-> strategy, out |-> run.out])
    /\ IF run.out.exc = "" /\ run.out.val # None
       THEN /\ last_strategy_used' = strategy
            /\ result' = Return(run.out.val)
            /\ pc' = "returned"
            /\ UNCHANGED errors
       ELSE /\ errors' = IF run.out.exc # ""
                         THEN Append(errors,
                                     [label |-> ErrorLabel(strategy), exc |-> run.out.exc])
                         ELSE errors
            /\ pc' = NextAfter(strategy)
            /\ UNCHANGED <<last_strategy_used, result>>
    /\ UNCHANGED <<raw_input, source_hint, caller, call_vars, shared_vars, app_vars>>

\* the strategy's outcome is one parse returns
Succeeded(out) == out.exc = "" /\ out.val # None

\* lines 47-58
TryN8n == Attempt("n8n_triple_layer", n8n_run(raw_input))

\* lines 60-67
TryStandard == Attempt("standard", Run("standard", parse_standard(raw_input)))

\* lines 69-76
TryDeepUnescape ==
    Attempt("deep_unescape", Run("deep_unescape", parse_with_deep_unescape(raw_input)))

\* lines 78-85
TryCleanup == Attempt("cleanup", Run("cleanup", parse_with_cleanup(raw_input)))

\* lines 87-94
TryExtraction ==
    Attempt("extraction", Run("extraction", parse_with_extraction(raw_input)))

\* lines 96-103
TryRepair == Attempt("repair", Run("repair", parse_with_repair(raw_input)))

\* a variant in which the failure clears last_strategy_used
RaiseAndClear ==
    /\ pc = "all_failed"
    /\ result' = Raise("ValueError")
    /\ pc' = "raised"
    /\ last_strategy_used' = "None"
    /\ UNCHANGED <<parsing_attempts, raw_input, source_hint, errors, tried>>
    /\ UNCHANGED <<caller, call_vars, shared_vars, app_vars>>

\* lines 105-108: every strategy has failed; the ValueError's message is errors
RaiseAllFailed ==
    /\ pc = "all_failed"
    /\ result' = Raise("ValueError")
    /\ pc' = "raised"
    /\ UNCHANGED <<last_strategy_used, parsing_attempts, raw_input, source_hint, errors, tried>>
    /\ UNCHANGED <<caller, call_vars, shared_vars, app_vars>>

\* line 468: len(normalized.get('cards', [])) in the log message; len raises
\* TypeError on a number, a boolean and None
LoggedLength(normalized_data) ==
    IF DictGet(normalized_data, W_cards).t \in {"num", "bool", "null"}
    THEN Raise("TypeError")
    ELSE Return(normalized_data)

\* a variant that decodes but does not normalize
NotNormalized(parsed) ==
    IF parsed.exc # "" THEN Raise(parsed.exc) ELSE Return(parsed.val)

\* lines 459-477: what parse_flashcard_data does with the outcome of parse: an
\* exception is logged and raised again, a value is normalized and returned
FlashcardData(parsed) ==
    IF parsed.exc # "" THEN Raise(parsed.exc)
    ELSE LoggedLength(normalize_flashcard_structure(parsed.val).val)

\* lines 463-477: parse has returned or raised to parse_flashcard_data
Normalize ==
    /\ pc \in {"returned", "raised"}
    /\ caller = "parse_flashcard_data"
    /\ normalized = Pending
    /\ normalized' = FlashcardData(result)
    /\ UNCHANGED <<parse_vars, direct, shared_vars, app_vars>>

\* the caller has the outcome; the call's locals are gone and the instance's
\* attributes stay
Finish ==
    /\ pc \in {"returned", "raised"}
    /\ caller = "parse_flashcard_data" => normalized # Pending
    /\ pc' = "ready"
    /\ caller' = "parse"
    /\ normalized' = Pending
    /\ raw_input' = <<>>
    /\ source_hint' = "None"
    /\ errors' = <<>>
    /\ tried' = <<>>
    /\ result' = Pending
    /\ UNCHANGED <<last_strategy_used, parsing_attempts, direct, shared_vars, app_vars>>

\* a strategy is called on its own only on an instance that has recorded less
\* than MaxAttempts attempts
MaxAttempts == 1

\* what the strategy's method does with the text: its outcome, and what it
\* appends to parsing_attempts
StrategyRun(strategy, raw) ==
    CASE strategy = "n8n_triple_layer" -> n8n_run(raw)
      [] strategy = "standard" -> Run(strategy, parse_standard(raw))
      [] strategy = "deep_unescape" -> Run(strategy, parse_with_deep_unescape(raw))
      [] strategy = "cleanup" -> Run(strategy, parse_with_cleanup(raw))
      [] strategy = "extraction" -> Run(strategy, parse_with_extraction(raw))
      [] strategy = "repair" -> Run(strategy, parse_with_repair(raw))

\* the call of a strategy's method has ended with run
Called(strategy, raw, run) ==
    /\ direct' = [op |-> strategy, text |-> raw, data |-> None, out |-> run.out]
    /\ parsing_attempts' = parsing_attempts \o run.attempts

\* a strategy's method is called on its own, not by parse
CallStrategy(strategy, raw) ==
    /\ pc = "ready"
    /\ Len(parsing_attempts) < MaxAttempts
    /\ pc' = "direct"
    /\ Called(strategy, raw, StrategyRun(strategy, raw))
    /\ UNCHANGED <<last_strategy_used, raw_input, source_hint, errors, tried, result,
                   caller, normalized, shared_vars, app_vars>>

\* _normalize_flashcard_structure is called on a decoded value
CallNormalizer(data) ==
    /\ pc = "ready"
    /\ pc' = "direct"
    /\ direct' = [op |-> "normalize", text |-> <<>>, data |-> data,
                  out |-> normalize_flashcard_structure(data)]
    /\ UNCHANGED <<last_strategy_used, parsing_attempts, raw_input, source_hint, errors,
                   tried, result, caller, normalized, shared_vars, app_vars>>

\* the caller has the outcome of the method called on its own
DirectReturn ==
    /\ pc = "direct"
    /\ pc' = "ready"
    /\ direct' = NoCall
    /\ UNCHANGED <<last_strategy_used, parsing_attempts, raw_input, source_hint, errors,
                   tried, result, caller, normalized, shared_vars, app_vars>>

Next ==
    \/ \E raw \in Inputs, hint \in Hints : Call(raw, hint)
    \/ \E raw \in Inputs : ParseFlashcardData(raw)
    \/ Normalize
    \/ \E strategy \in Strategies, raw \in Inputs : CallStrategy(strategy, raw)
    \/ \E data \in DecodedValues : CallNormalizer(data)
    \/ DirectReturn
    \/ TryN8n
    \/ TryStandard
    \/ TryDeepUnescape
    \/ TryCleanup
    \/ TryExtraction
    \/ TryRepair
    \/ RaiseAllFailed
    \/ Finish

Spec == Init /\ [][Next]_vars

(***************************************************************************)
(* Concurrent requests: each request calls parse_flashcard_data once at a  *)
(* time on the instance it uses, and two requests may use the same one.    *)
(* A step is one strategy's try block; the interpreter can switch threads  *)
(* between any two of them.                                                *)
(***************************************************************************)
\* the texts the requests send: a deck, an envelope, a fenced list and prose
SharedInputs ==
    {Dumps(Deck(1)),
     EnvelopeTexts[<< <<1>>, <<1>> >>],
     Fenced(Dumps(PyList(CardsFrom(1, 1)))),
     <<"h", "e", "l", "l", "o", " ", "w", "o", "r", "l", "d">>}

\* a variant in which last_strategy_used is an attribute of the class: the
\* assignment shows in every instance
AssignedToAll(attributes, i, strategy) ==
    [k \in DOMAIN attributes |-> [attributes[k] EXCEPT !.last_strategy_used = strategy]]

\* lines 52, 64, 73, 82, 91, 100: self.last_strategy_used = strategy, on instance i
Assigned(attributes, i, strategy) ==
    [attributes EXCEPT ![i].last_strategy_used = strategy]

\* the strategies' self.parsing_attempts.append(...), on instance i
Appended(attributes, i, names) ==
    [attributes EXCEPT ![i].parsing_attempts = @ \o names]

SharedInit ==
    /\ NoCalls
    /\ owner \in [Requests -> Requests]
    /\ attrs = [i \in Requests |-> Fresh]
    /\ requests = [r \in Requests |-> Idle]
    /\ NoFiles

\* lines 41-48 and 461: request r calls parse_flashcard_data, which calls parse
\* with the n8n hint; parse resets the instance's parsing_attempts
Start(r, raw) ==
    /\ requests[r].pc = "idle"
    /\ requests' = [requests EXCEPT ![r] =
                       [pc |-> "n8n_triple_layer", raw_input |-> raw, mine |-> <<>>,
                        strategy |-> "None", seen |-> "None"]]
    /\ attrs' = [attrs EXCEPT ![owner[r]].parsing_attempts = <<>>]
    /\ UNCHANGED <<owner, parse_vars, call_vars, app_vars>>

\* one try block of request r's parse call, run being what the strategy does
StepWith(r, run) ==
    /\ requests' = [requests EXCEPT
                       ![r].mine = @ \o run.attempts,
                       ![r].strategy = IF Succeeded(run.out) THEN requests[r].pc ELSE @,
                       ![r].pc = IF Succeeded(run.out) THEN "returned"
                                 ELSE NextAfter(requests[r].pc)]
    /\ attrs' = IF Succeeded(run.out)
                THEN Assigned(Appended(attrs, owner[r], run.attempts), owner[r],
                              requests[r].pc)
                ELSE Appended(attrs, owner[r], run.attempts)

\* lines 47-103
Step(r) ==
    /\ requests[r].pc \in Strategies
    /\ StepWith(r, StrategyRun(requests[r].pc, requests[r].raw_input))
    /\ UNCHANGED <<owner, parse_vars, call_vars, app_vars>>

\* lines 105-108 and 474-477: every strategy has failed, the ValueError goes to
\* the caller of parse_flashcard_data
Fail(r) ==
    /\ requests[r].pc = "all_failed"
    /\ requests' = [requests EXCEPT ![r].pc = "raised"]
    /\ UNCHANGED <<owner, attrs, parse_vars, call_vars, app_vars>>

\* line 468: parse has returned; parse_flashcard_data reads
\* self.flexible_parser.last_strategy_used
Read(r) ==
    /\ requests[r].pc = "returned"
    /\ requests' = [requests EXCEPT ![r].pc = "done",
                                    ![r].seen = attrs[owner[r]].last_strategy_used]
    /\ UNCHANGED <<owner, attrs, parse_vars, call_vars, app_vars>>

\* the request is over; the next one of its thread can start
Leave(r) ==
    /\ requests[r].pc \in {"done", "raised"}
    /\ requests' = [requests EXCEPT ![r] = Idle]
    /\ UNCHANGED <<owner, attrs, parse_vars, call_vars, app_vars>>

SharedNext ==
    \/ \E r \in Requests, raw \in SharedInputs : Start(r, raw)
    \/ \E r \in Requests : Step(r)
    \/ \E r \in Requests : Fail(r)
    \/ \E r \in Requests : Read(r)
    \/ \E r \in Requests : Leave(r)

SharedSpec == SharedInit /\ [][SharedNext]_vars

(***************************************************************************)
(* The web application of src/app.py: FlashcardProcessor's validator, and  *)
(* the handlers that validate a deck, generate its package file and serve  *)
(* generated files.  A handler gets the request's JSON already decoded,    *)
(* as Flask's request.get_json returns it.  A handler is one step: the     *)
(* requests are served one at a time.                                      *)
(***************************************************************************)
W_cloze_text == <<"c", "l", "o", "z", "e", "_", "t", "e", "x", "t">>
W_type == <<"t", "y", "p", "e">>
W_high_yield_flag ==
    <<"h", "i", "g", "h", "_", "y", "i", "e", "l", "d", "_", "f", "l", "a", "g">>
W_cloze == <<"c", "l", "o", "z", "e">>
W_high_yield == <<"h", "i", "g", "h", "-", "y", "i", "e", "l", "d">>
W_apkg == <<".", "a", "p", "k", "g">>
W_tar_gz == <<".", "t", "a", "r", ".", "g", "z">>

UpperCase ==
    <<"A", "B", "C", "D", "E", "F", "G", "H", "I", "J", "K", "L", "M",
      "N", "O", "P", "Q", "R", "S", "T", "U", "V", "W", "X", "Y", "Z">>

LowerCase ==
    <<"a", "b", "c", "d", "e", "f", "g", "h", "i", "j", "k", "l", "m",
      "n", "o", "p", "q", "r", "s", "t", "u", "v", "w", "x", "y", "z">>

\* s.lower()
Lower(s) ==
    [n \in 1..Len(s) |->
        IF \E k \in 1..Len(UpperCase) : UpperCase[k] = s[n]
        THEN LowerCase[CHOOSE k \in 1..Len(UpperCase) : UpperCase[k] = s[n]]
        ELSE s[n]]

\* s.endswith(pat)
EndsWith(s, pat) == MatchAt(s, Len(s) - Len(pat) + 1, pat)

\* card.get(key, '')
GetText(card, key) == DictGetDefault(card, key, PyStr(<<>>))

\* not x.strip(), for a str x
Blank(x) == Strip(x.v) = <<>>

\* line 344: 'question' in card and 'answer' in card
has_qa_traditional(card) == HasKey(card, W_question) /\ HasKey(card, W_answer)

\* line 345: 'front' in card and 'back' in card
has_qa_front_back(card) == HasKey(card, W_front) /\ HasKey(card, W_back)

\* line 346: 'cloze_text' in card and card.get('cloze_text', '').strip(), for a
\* cloze_text that is a str
has_cloze(card) == HasKey(card, W_cloze_text) /\ ~Blank(DictGet(card, W_cloze_text))

\* lines 353-355: the fields of a card with question and answer; str.strip is
\* no attribute of a value that is no str
TraditionalError(card) ==
    IF ~IsStr(DictGet(card, W_question)) THEN "AttributeError"
    ELSE IF Blank(DictGet(card, W_question)) THEN "ValueError"
    ELSE IF ~IsStr(DictGet(card, W_answer)) THEN "AttributeError"
    ELSE IF Blank(DictGet(card, W_answer)) THEN "ValueError"
    ELSE ""

\* lines 356-366: the fields of a card with front and back; a cloze card with
\* its content in front may have an empty back
FrontBackError(card) ==
    IF \E key \in {W_front, W_back, W_type} : ~IsStr(GetText(card, key))
    THEN "AttributeError"
    ELSE IF Lower(GetText(card, W_type).v) = W_cloze /\ ~Blank(GetText(card, W_front))
    THEN ""
    ELSE IF Blank(GetText(card, W_front)) \/ Blank(GetText(card, W_back))
    THEN "ValueError"
    ELSE ""

\* lines 369-371: high_yield_flag, when present, is 'high-yield' or empty
FlagError(card) ==
    IF ~IsStr(GetText(card, W_high_yield_flag)) THEN "AttributeError"
    ELSE IF Lower(Strip(GetText(card, W_high_yield_flag).v)) \notin {<<>>, W_high_yield}
    THEN "ValueError"
    ELSE ""

\* lines 353-366: the check of the fields the card is recognized by
FieldsError(card) ==
    IF has_qa_traditional(card) THEN TraditionalError(card)
    ELSE IF has_qa_front_back(card) THEN FrontBackError(card)
    ELSE ""

\* lines 339-371, one pass of the loop: the exception the card raises, "" when
\* it raises none
CardError(card) ==
    IF ~IsDict(card) THEN "ValueError"
    ELSE IF HasKey(card, W_cloze_text) /\ ~IsStr(DictGet(card, W_cloze_text))
    THEN "AttributeError"
    ELSE IF ~has_qa_traditional(card) /\ ~has_qa_front_back(card) /\ ~has_cloze(card)
    THEN "ValueError"
    ELSE IF FieldsError(card) # "" THEN FieldsError(card)
    ELSE FlagError(card)

\* lines 339-371: the loop raises at the first card that raises
CardsOutcome(cards) ==
    IF \E n \in 1..Len(cards) : CardError(cards[n]) # ""
    THEN Raise(CardError(cards[FirstIdx(1, Len(cards), LAMBDA n : CardError(cards[n]) # "")]))
    ELSE Return(None)

\* lines 322-371
validate_json_structure(data) ==
    IF ~IsDict(data) THEN Raise("ValueError")
    ELSE IF ~HasKey(data, W_deck_name) THEN Raise("ValueError")
    ELSE IF ~HasKey(data, W_cards) THEN Raise("ValueError")
    ELSE IF ~IsList(DictGet(data, W_cards)) THEN Raise("ValueError")
    ELSE IF Len(DictGet(data, W_cards).v) = 0 THEN Raise("ValueError")
    ELSE CardsOutcome(DictGet(data, W_cards).v)

\* test_data["cards"][0]
TestCard1 ==
    PyDict(<< <<<<"q", "u", "e", "s", "t", "i", "o", "n">>, PyStr(<<"W", "h", "a", "t", " ",
        "i", "s", " ", "t", "h", "e", " ", "m", "e", "c", "h", "a", "n", "i", "s", "m", " ",
        "o", "f", " ", "a", "c", "t", "i", "o", "n", " ", "o", "f", " ", "A", "s", "p", "i",
        "r", "i", "n", "?">>)>>, <<<<"a", "n", "s", "w", "e", "r">>, PyStr(<<"I", "r", "r", "e",
        "v", "e", "r", "s", "i", "b", "l", "y", " ", "i", "n", "h", "i", "b", "i", "t", "s",
        " ", "C", "O", "X", "-", "1", " ", "a", "n", "d", " ", "C", "O", "X", "-", "2", " ",
        "e", "n", "z", "y", "m", "e", "s", " ", "b", "y", " ", "a", "c", "e", "t", "y", "l",
        "a", "t", "i", "n", "g", " ", "s", "e", "r", "i", "n", "e", " ", "r", "e", "s", "i",
        "d", "u", "e", "s">>)>>, <<<<"m", "n", "e", "m", "o", "n", "i", "c">>, PyStr(<<"A", "S",
        "A", " ", "=", " ", "A", "c", "e", "t", "y", "l", "a", "t", "e", "s", " ", "S", "e",
        "r", "i", "n", "e", " ", "A", "l", "w", "a", "y", "s">>)>>, <<<<"v", "i", "g", "n", "e",
        "t", "t", "e">>, PyStr(<<"A", " ", "6", "5", "-", "y", "e", "a", "r", "-", "o", "l",
        "d", " ", "p", "a", "t", "i", "e", "n", "t", " ", "w", "i", "t", "h", " ", "c", "h",
        "e", "s", "t", " ", "p", "a", "i", "n", " ", "i", "s", " ", "g", "i", "v", "e", "n",
        " ", "a", "s", "p", "i", "r", "i", "n", " ", "3", "2", "5", "m", "g", " ", "i", "n",
        " ", "t", "h", "e", " ", "e", "m", "e", "r", "g", "e", "n", "c", "y", " ", "d", "e",
        "p", "a", "r", "t", "m", "e", "n", "t">>)>>, <<<<"c", "l", "i", "n", "i", "c", "a", "l",
        "_", "c", "o", "r", "r", "e", "l", "a", "t", "i", "o", "n">>, PyStr(<<"L", "o", "w",
        "-", "d", "o", "s", "e", " ", "a", "s", "p", "i", "r", "i", "n", " ", "(", "8", "1",
        "m", "g", ")", " ", "i", "s", " ", "u", "s", "e", "d", " ", "f", "o", "r", " ", "c",
        "a", "r", "d", "i", "o", "v", "a", "s", "c", "u", "l", "a", "r", " ", "p", "r", "o",
        "t", "e", "c", "t", "i", "o", "n", " ", "d", "u", "e", " ", "t", "o", " ", "i", "t",
        "s", " ", "a", "n", "t", "i", "p", "l", "a", "t", "e", "l", "e", "t", " ", "e", "f",
        "f", "e", "c", "t", "s">>)>>, <<<<"n", "o", "t", "e", "s">>, PyStr(<<"I", "m", "p", "o",
        "r", "t", "a", "n", "t", " ", "f", "o", "r", " ", "c", "a", "r", "d", "i", "o", "l",
        "o", "g", "y", ",", " ", "p", "a", "i", "n", " ", "m", "a", "n", "a", "g", "e", "m",
        "e", "n", "t", ",", " ", "a", "n", "d", " ", "U", "S", "M", "L", "E", " ", "S", "t",
        "e", "p", " ", "1">>)>>, <<<<"s", "o", "u", "r", "c", "e">>, PyStr(<<"F", "i", "r", "s",
        "t", " ", "A", "i", "d", " ", "2", "0", "2", "4", ",", " ", "P", "a", "g", "e", " ",
        "4", "8", "7">>)>>, <<<<"t", "a", "g", "s">>, PyList(<<PyStr(<<"P", "h", "a", "r", "m",
        "a", "c", "o", "l", "o", "g", "y">>), PyStr(<<"N", "S", "A", "I", "D", "s">>),
        PyStr(<<"C", "a", "r", "d", "i", "o", "v", "a", "s", "c", "u", "l", "a", "r">>)>>)>> >>)

\* test_data["cards"][1]
TestCard2 ==
    PyDict(<< <<<<"c", "l", "o", "z", "e", "_", "t", "e", "x", "t">>, PyStr(<<"{", "{", "c",
        "1", ":", ":", "M", "y", "o", "c", "a", "r", "d", "i", "a", "l", " ", "i", "n", "f",
        "a", "r", "c", "t", "i", "o", "n", "}", "}", " ", "i", "s", " ", "c", "a", "u", "s",
        "e", "d", " ", "b", "y", " ", "{", "{", "c", "2", ":", ":", "c", "o", "r", "o", "n",
        "a", "r", "y", " ", "a", "r", "t", "e", "r", "y", " ", "o", "c", "c", "l", "u", "s",
        "i", "o", "n", "}", "}", " ", "l", "e", "a", "d", "i", "n", "g", " ", "t", "o", " ",
        "{", "{", "c", "3", ":", ":", "m", "y", "o", "c", "a", "r", "d", "i", "a", "l", " ",
        "n", "e", "c", "r", "o", "s", "i", "s", "}", "}">>)>>, <<<<"m", "n", "e", "m", "o", "n",
        "i", "c">>, PyStr(<<"M", "I", " ", "=", " ", "M", "u", "s", "c", "l", "e", " ", "I",
        "s", "c", "h", "e", "m", "i", "a">>)>>, <<<<"v", "i", "g", "n", "e", "t", "t", "e">>,
        PyStr(<<"4", "5", "-", "y", "e", "a", "r", "-", "o", "l", "d", " ", "m", "a", "l", "e",
        " ", "p", "r", "e", "s", "e", "n", "t", "s", " ", "w", "i", "t", "h", " ", "c", "r",
        "u", "s", "h", "i", "n", "g", " ", "c", "h", "e", "s", "t", " ", "p", "a", "i", "n",
        " ", "r", "a", "d", "i", "a", "t", "i", "n", "g", " ", "t", "o", " ", "l", "e", "f",
        "t", " ", "a", "r", "m">>)>>, <<<<"c", "l", "i", "n", "i", "c", "a", "l", "_", "c", "o",
        "r", "r", "e", "l", "a", "t", "i", "o", "n">>, PyStr(<<"S", "T", "-", "e", "l", "e",
        "v", "a", "t", "i", "o", "n", " ", "i", "n", "d", "i", "c", "a", "t", "e", "s", " ",
        "t", "r", "a", "n", "s", "m", "u", "r", "a", "l", " ", "i", "n", "f", "a", "r", "c",
        "t", "i", "o", "n", " ", "r", "e", "q", "u", "i", "r", "i", "n", "g", " ", "i", "m",
        "m", "e", "d", "i", "a", "t", "e", " ", "P", "C", "I">>)>>, <<<<"n", "o", "t", "e",
        "s">>, PyStr(<<"K", "e", "y", " ", "c", "o", "n", "c", "e", "p", "t", " ", "f", "o",
        "r", " ", "U", "S", "M", "L", "E", " ", "S", "t", "e", "p", " ", "1", " ", "a", "n",
        "d", " ", "c", "a", "r", "d", "i", "o", "l", "o", "g", "y", " ", "r", "o", "t", "a",
        "t", "i", "o", "n", "s">>)>>, <<<<"s", "o", "u", "r", "c", "e">>, PyStr(<<"P", "a", "t",
        "h", "o", "m", "a", " ", "C", "h", "a", "p", "t", "e", "r", " ", "7">>)>>, <<<<"t", "a",
        "g", "s">>, PyList(<<PyStr(<<"C", "a", "r", "d", "i", "o", "l", "o", "g", "y">>),
        PyStr(<<"P", "a", "t", "h", "o", "p", "h", "y", "s", "i", "o", "l", "o", "g", "y">>),
        PyStr(<<"E", "m", "e", "r", "g", "e", "n", "c", "y", " ", "M", "e", "d", "i", "c", "i",
        "n", "e">>)>>)>> >>)

\* test_data["cards"][2]
TestCard3 ==
    PyDict(<< <<<<"f", "r", "o", "n", "t">>, PyStr(<<"D", "e", "f", "i", "n", "e", " ", "h",
        "e", "p", "a", "t", "o", "m", "e", "g", "a", "l", "y">>)>>, <<<<"b", "a", "c", "k">>,
        PyStr(<<"E", "n", "l", "a", "r", "g", "e", "m", "e", "n", "t", " ", "o", "f", " ", "t",
        "h", "e", " ", "l", "i", "v", "e", "r", " ", "b", "e", "y", "o", "n", "d", " ", "n",
        "o", "r", "m", "a", "l", " ", "s", "i", "z", "e", " ", "(", ">", "1", "2", "c", "m",
        " ", "i", "n", " ", "M", "C", "L", ")">>)>>, <<<<"m", "n", "e", "m", "o", "n", "i",
        "c">>, PyStr(<<"H", "e", "p", "a", "t", "o", " ", "=", " ", "l", "i", "v", "e", "r",
        ",", " ", "m", "e", "g", "a", "l", "y", " ", "=", " ", "l", "a", "r", "g", "e">>)>>,
        <<<<"v", "i", "g", "n", "e", "t", "t", "e">>, PyStr(<<"P", "a", "t", "i", "e", "n", "t",
        " ", "p", "r", "e", "s", "e", "n", "t", "s", " ", "w", "i", "t", "h", " ", "R", "U",
        "Q", " ", "f", "u", "l", "l", "n", "e", "s", "s", " ", "a", "n", "d", " ", "p", "a",
        "l", "p", "a", "b", "l", "e", " ", "l", "i", "v", "e", "r", " ", "e", "d", "g", "e",
        " ", "4", "c", "m", " ", "b", "e", "l", "o", "w", " ", "c", "o", "s", "t", "a", "l",
        " ", "m", "a", "r", "g", "i", "n">>)>>, <<<<"c", "l", "i", "n", "i", "c", "a", "l", "_",
        "c", "o", "r", "r", "e", "l", "a", "t", "i", "o", "n">>, PyStr(<<"A", "s", "s", "o",
        "c", "i", "a", "t", "e", "d", " ", "w", "i", "t", "h", " ", "h", "e", "a", "r", "t",
        " ", "f", "a", "i", "l", "u", "r", "e", ",", " ", "f", "a", "t", "t", "y", " ", "l",
        "i", "v", "e", "r", ",", " ", "m", "a", "l", "i", "g", "n", "a", "n", "c", "y", ",",
        " ", "o", "r", " ", "s", "t", "o", "r", "a", "g", "e", " ", "d", "i", "s", "e", "a",
        "s", "e", "s">>)>>, <<<<"n", "o", "t", "e", "s">>, PyStr(<<"P", "h", "y", "s", "i", "c",
        "a", "l", " ", "e", "x", "a", "m", " ", "f", "i", "n", "d", "i", "n", "g", " ", "w",
        "i", "t", "h", " ", "m", "u", "l", "t", "i", "p", "l", "e", " ", "d", "i", "f", "f",
        "e", "r", "e", "n", "t", "i", "a", "l", " ", "d", "i", "a", "g", "n", "o", "s", "e",
        "s">>)>>, <<<<"s", "o", "u", "r", "c", "e">>, PyStr(<<"B", "a", "t", "e", "s", " ", "P",
        "h", "y", "s", "i", "c", "a", "l", " ", "E", "x", "a", "m", "i", "n", "a", "t", "i",
        "o", "n">>)>>, <<<<"t", "a", "g", "s">>, PyList(<<PyStr(<<"P", "h", "y", "s", "i", "c",
        "a", "l", " ", "E", "x", "a", "m">>), PyStr(<<"H", "e", "p", "a", "t", "o", "l", "o",
        "g", "y">>), PyStr(<<"I", "n", "t", "e", "r", "n", "a", "l", " ", "M", "e", "d", "i",
        "c", "i", "n", "e">>)>>)>> >>)

\* test_data["cards"][3]
TestCard4 ==
    PyDict(<< <<<<"t", "y", "p", "e">>, PyStr(<<"c", "l", "o", "z", "e">>)>>, <<<<"f", "r", "o",
        "n", "t">>, PyStr(<<"T", "h", "e", " ", "{", "{", "c", "1", ":", ":", "s", "y", "m",
        "p", "a", "t", "h", "e", "t", "i", "c", "}", "}", " ", "n", "e", "r", "v", "o", "u",
        "s", " ", "s", "y", "s", "t", "e", "m", " ", "r", "e", "l", "e", "a", "s", "e", "s",
        " ", "{", "{", "c", "2", ":", ":", "n", "o", "r", "e", "p", "i", "n", "e", "p", "h",
        "r", "i", "n", "e", "}", "}", " ", "a", "t", " ", "m", "o", "s", "t", " ", "{", "{",
        "c", "3", ":", ":", "p", "o", "s", "t", "g", "a", "n", "g", "l", "i", "o", "n", "i",
        "c", "}", "}", " ", "t", "e", "r", "m", "i", "n", "a", "l", "s">>)>>, <<<<"m", "n", "e",
        "m", "o", "n", "i", "c">>, PyStr(<<"S", "y", "m", "p", "a", "t", "h", "e", "t", "i",
        "c", " ", "=", " ", "S", "p", "e", "e", "d", " ", "u", "p", " ", "w", "i", "t", "h",
        " ", "N", "E">>)>>, <<<<"v", "i", "g", "n", "e", "t", "t", "e">>, PyStr(<<"F", "i", "g",
        "h", "t", "-", "o", "r", "-", "f", "l", "i", "g", "h", "t", " ", "r", "e", "s", "p",
        "o", "n", "s", "e", " ", "d", "u", "r", "i", "n", "g", " ", "s", "t", "r", "e", "s",
        "s", " ", "i", "n", "c", "r", "e", "a", "s", "e", "s", " ", "h", "e", "a", "r", "t",
        " ", "r", "a", "t", "e", " ", "a", "n", "d", " ", "b", "l", "o", "o", "d", " ", "p",
        "r", "e", "s", "s", "u", "r", "e">>)>>, <<<<"c", "l", "i", "n", "i", "c", "a", "l", "_",
        "c", "o", "r", "r", "e", "l", "a", "t", "i", "o", "n">>, PyStr(<<"B", "e", "t", "a",
        "-", "b", "l", "o", "c", "k", "e", "r", "s", " ", "w", "o", "r", "k", " ", "b", "y",
        " ", "a", "n", "t", "a", "g", "o", "n", "i", "z", "i", "n", "g", " ", "n", "o", "r",
        "e", "p", "i", "n", "e", "p", "h", "r", "i", "n", "e", " ", "a", "t", " ", "c", "a",
        "r", "d", "i", "a", "c", " ", "r", "e", "c", "e", "p", "t", "o", "r", "s">>)>>, <<<<"n",
        "o", "t", "e", "s">>, PyStr(<<"F", "u", "n", "d", "a", "m", "e", "n", "t", "a", "l",
        " ", "c", "o", "n", "c", "e", "p", "t", " ", "i", "n", " ", "a", "u", "t", "o", "n",
        "o", "m", "i", "c", " ", "p", "h", "a", "r", "m", "a", "c", "o", "l", "o", "g",
        "y">>)>>, <<<<"s", "o", "u", "r", "c", "e">>, PyStr(<<"K", "a", "t", "z", "u", "n", "g",
        " ", "P", "h", "a", "r", "m", "a", "c", "o", "l", "o", "g", "y", " ", "1", "5", "t",
        "h", " ", "E", "d", "i", "t", "i", "o", "n">>)>>, <<<<"t", "a", "g", "s">>,
        PyList(<<PyStr(<<"P", "h", "a", "r", "m", "a", "c", "o", "l", "o", "g", "y">>),
        PyStr(<<"A", "u", "t", "o", "n", "o", "m", "i", "c">>), PyStr(<<"P", "h", "y", "s", "i",
        "o", "l", "o", "g", "y">>)>>)>> >>)

\* the deck of the repository's own test
test_data ==
    PyDict(<< <<W_deck_name, PyStr(<<"P", "e", "r", "f", "e", "c", "t", " ", "M", "e", "d", "i",
        "c", "a", "l", " ", "C", "a", "r", "d", "s", " ", "T", "e", "s", "t">>)>>, <<W_cards,
        PyList(<<TestCard1, TestCard2, TestCard3, TestCard4>>)>> >>)


\* a handler's answer to a request: its route, the request's JSON, the
\* status, the file name asked for (download), and the file the answer sends
\* or names in its download_url
Reply(route, data, status, asked, file) ==
    [route |-> route, data |-> data, status |-> status, asked |-> asked, file |-> file]

\* the except clauses of the handlers: a ValueError is a 400, any other
\* exception a 500
StatusOf(out) ==
    CASE out.exc = "" -> 200
      [] out.exc = "ValueError" -> 400
      [] OTHER -> 500

\* lines 670-720
api_validate(json_data) ==
    IF ~Truthy(json_data) THEN 400
    ELSE StatusOf(validate_json_structure(json_data))

\* lines 614 and 776: json_data.get('deck_name', 'Unknown') and
\* len(json_data.get('cards', [])) in the log message raise on a value that is
\* no dict and on cards that have no length
Logged(json_data) ==
    /\ IsDict(json_data)
    /\ DictGetDefault(json_data, W_cards, PyList(<<>>)).t \notin {"num", "bool", "null"}

\* lines 586-668, up to the package file
api_generate(json_data) ==
    IF ~Truthy(json_data) THEN 400
    ELSE IF ~Logged(json_data) THEN 500
    ELSE StatusOf(validate_json_structure(json_data))

W_Medical_Flashcards ==
    <<"M", "e", "d", "i", "c", "a", "l", " ", "F", "l", "a", "s", "h", "c", "a", "r", "d", "s">>

\* lines 759-767: a bare list is taken for the cards, and a missing deck_name
\* is added
Prepared(json_data) ==
    IF IsList(json_data)
    THEN PyDict(<< <<W_deck_name, PyStr(W_Medical_Flashcards)>>, <<W_cards, json_data>> >>)
    ELSE IF ~HasKey(json_data, W_deck_name) /\ HasKey(json_data, W_cards)
    THEN PyDict(DictSet(json_data.v, W_deck_name, PyStr(W_Medical_Flashcards)))
    ELSE json_data

\* lines 723-779, up to the package file; on a str, in is the substring test
\* and the assignment of deck_name raises; on a number and a boolean, in raises
api_generate_json(json_data) ==
    IF ~Truthy(json_data) THEN 400
    ELSE IF IsStr(json_data) THEN (IF Contains(json_data.v, W_cards) THEN 500 ELSE 400)
    ELSE IF ~IsList(json_data) /\ ~IsDict(json_data) THEN 500
    ELSE IF IsDict(json_data) /\ ~HasKey(json_data, W_cards) THEN 400
    ELSE IF ~Logged(Prepared(json_data)) THEN 500
    ELSE StatusOf(validate_json_structure(Prepared(json_data)))

\* tempfile.NamedTemporaryFile(delete=False, suffix='.apkg') and
\* genanki's write_to_file: the file is in /tmp, the newest there
Created(files, name) == Append(files, name)

\* line 794: os.unlink(tmp_file.name)
Unlinked(files, name) == SelectSeq(files, LAMBDA f : f # name)

\* lines 783-794: the package file is written and removed
WrittenAndUnlinked(files, name) == Unlinked(Created(files, name), name)

\* the files of a sequence, as a set
Names(files) == {files[n] : n \in 1..Len(files)}

\* line 1056: filename.replace('_', '').replace('.apkg', '')
Stem(filename) == Replace(Replace(filename, <<"_">>, <<>>), W_apkg, <<>>)

\* line 1056: the file's name holds the name asked for, underscores and
\* extension aside
Similar(filename, f) == EndsWith(f, W_apkg) /\ Contains(Stem(f), Stem(filename))

\* lines 1028-1063: the file download_file sends: the file of that name in
\* /tmp, else the newest file of /tmp with a similar name, else none (<<>>).
\* The other two directories searched hold no package file: no handler writes
\* there.
FoundFile(files, filename) ==
    IF filename \in Names(files) THEN filename
    ELSE IF \E n \in 1..Len(files) : Similar(filename, files[n])
    THEN files[LastIdx(1, Len(files), LAMBDA n : Similar(filename, files[n]))]
    ELSE <<>>

\* lines 1017-1088
download_file(files, filename) ==
    IF ~EndsWith(filename, W_apkg) /\ ~EndsWith(filename, W_tar_gz) THEN 400
    ELSE IF FoundFile(files, filename) = <<>> THEN 404
    ELSE 200

\* the file the answer sends or names, when the handler answers 200
FileOf(status, file) == IF status = 200 THEN file ELSE <<>>

\* POST /api/validate
ApiValidate(json_data) ==
    /\ reply' = Reply("/api/validate", json_data, api_validate(json_data), <<>>, <<>>)
    /\ UNCHANGED <<tmp, parse_vars, call_vars, shared_vars>>

\* POST /api/generate: the package file is sent, and stays in /tmp
ApiGenerate(json_data, name) ==
    /\ name \notin Names(tmp)
    /\ reply' = Reply("/api/generate", json_data, api_generate(json_data), <<>>,
                      FileOf(api_generate(json_data), name))
    /\ tmp' = IF api_generate(json_data) = 200 THEN Created(tmp, name) ELSE tmp
    /\ UNCHANGED <<parse_vars, call_vars, shared_vars>>

\* POST /api/generate-json: the answer names the package file in download_url
ApiGenerateJson(json_data, name) ==
    /\ name \notin Names(tmp)
    /\ reply' = Reply("/api/generate-json", json_data, api_generate_json(json_data), <<>>,
                      FileOf(api_generate_json(json_data), name))
    /\ tmp' = IF api_generate_json(json_data) = 200 THEN WrittenAndUnlinked(tmp, name)
              ELSE tmp
    /\ UNCHANGED <<parse_vars, call_vars, shared_vars>>

\* GET /download/<filename>
DownloadFile(filename) ==
    /\ reply' = Reply("/download", None, download_file(tmp, filename), filename,
                      FileOf(download_file(tmp, filename), FoundFile(tmp, filename)))
    /\ UNCHANGED <<tmp, parse_vars, call_vars, shared_vars>>

\* the values a card's field takes in the requests
Texts ==
    [key \in {W_front, W_back, W_cloze_text, W_type} |->
        CASE key = W_front -> {PyStr(<<" ">>), PyStr(<<"F">>)}
          [] key = W_back -> {PyStr(<<>>), PyStr(<<"B">>)}
          [] key = W_cloze_text -> {PyStr(<<" ", "\n">>), PyStr(<<"C">>)}
          [] key = W_type -> {PyStr(<<"C", "l", "o", "z", "e">>)}]

\* the field is absent, or has one of its values
FieldOf(key) == {<<>>} \cup {<< <<key, x>> >> : x \in Texts[key]}

\* question and answer: both absent, both present, one absent, one empty
Traditional ==
    {<<>>,
     << <<W_question, PyStr(<<"Q">>)>>, <<W_answer, PyStr(<<"A">>)>> >>,
     << <<W_question, PyStr(<<"Q">>)>> >>,
     << <<W_question, PyStr(<<>>)>>, <<W_answer, PyStr(<<"A">>)>> >>,
     << <<W_question, PyStr(<<"Q">>)>>, <<W_answer, PyStr(<<" ">>)>> >>}

\* the cards of the requests: the combinations of the fields the validator
\* reads, some with a high_yield_flag, and some with a field that is no str
RequestCards ==
    {PyDict(t \o f \o b \o c)
        : t \in FieldOf(W_type), f \in FieldOf(W_front), b \in FieldOf(W_back),
          c \in FieldOf(W_cloze_text)}
    \cup {PyDict(qa \o f \o c)
             : qa \in Traditional,
               f \in {<<>>, << <<W_front, PyStr(<<"F">>)>>, <<W_back, PyStr(<<>>)>> >>},
               c \in FieldOf(W_cloze_text)}
    \cup {PyDict(<< <<W_front, PyStr(<<"F">>)>>, <<W_back, PyStr(<<"B">>)>>,
                    <<W_high_yield_flag, PyStr(flag)>> >>)
             : flag \in {<<>>, <<" ", "H", "i", "g", "h", "-", "Y", "i", "e", "l", "d">>,
                         <<"l", "o", "w">>}}
    \cup {PyDict(<< <<W_question, PyNum(<<"1">>)>>, <<W_answer, PyStr(<<"A">>)>> >>),
          PyDict(<< <<W_cloze_text, None>> >>),
          PyDict(<< <<W_front, PyStr(<<"F">>)>>, <<W_back, None>> >>),
          PyStr(W_deck_name)}

\* a deck of the cards
DeckOf(cards) ==
    PyDict(<< <<W_deck_name, PyStr(<<"D">>)>>, <<W_cards, PyList(cards)>> >>)

\* the JSON of the requests to /api/validate: the test's deck, the decks of one
\* card, decks of two cards, and data that is no deck
ValidateRequests ==
    {test_data}
    \cup {DeckOf(<<card>>) : card \in RequestCards}
    \cup {DeckOf(<<Card(1), card>>) : card \in {TestCard3, TestCard4, PyStr(W_deck_name)}}
    \cup {DeckOf(<<>>), Deck(1), PyDict(<< <<W_deck_name, PyStr(<<"D">>)>> >>),
          PyDict(<< <<W_deck_name, PyStr(<<"D">>)>>, <<W_cards, PyStr(W_deck_name)>> >>),
          PyDict(<<>>), PyList(CardsFrom(1, 3)), None}

\* the JSON of the requests to the generating handlers
GenerateRequests ==
    {test_data, DeckOf(<<TestCard3>>), DeckOf(<<Card(1)>>), Deck(1),
     PyList(<<TestCard1, TestCard2, TestCard3>>), Cards(<<TestCard3>>),
     PyDict(<< <<W_deck_name, PyStr(<<"D">>)>> >>),
     PyDict(<< <<W_deck_name, PyStr(<<"D">>)>>, <<W_cards, PyNum(<<"1", "2", "3", "4", "5">>)>> >>),
     PyStr(W_front), PyStr(W_cards), PyNum(<<"1", "2", "3", "4">>), PyList(<<>>)}

\* the names tempfile gives a package file: tmp, random characters (letters,
\* digits and the underscore), and the suffix
TempNames ==
    {<<"t", "m", "p", "a", "_">> \o W_apkg,
     <<"t", "m", "p", "_", "a">> \o W_apkg}

\* the file names asked of /download
DownloadNames == TempNames \cup {<<"n", "o", "t", "e", "s", ".", "t", "x", "t">>}

AppInit == NoCalls /\ NoRequests /\ NoFiles

AppNext ==
    \/ \E json_data \in ValidateRequests : ApiValidate(json_data)
    \/ \E json_data \in GenerateRequests, name \in TempNames : ApiGenerate(json_data, name)
    \/ \E json_data \in GenerateRequests, name \in TempNames :
          ApiGenerateJson(json_data, name)
    \/ \E filename \in DownloadNames : DownloadFile(filename)

AppSpec == AppInit /\ [][AppNext]_vars

(***************************************************************************)
(* Properties of parse                                                     *)
(***************************************************************************)
\* the call has returned or raised
Done == pc \in {"returned", "raised"}

LastTried == tried[Len(tried)]

\* C1: parse tries its strategies in the fixed order (envelope extractor only
\* when triggered, strict decoder, deep unescape resolver, cleanup normalizer,
\* substring extractor, heuristic repairer), returns the result of the first
\* strategy that yields a value that is not None, and attempts no strategy after
\* the successful one; it raises only when the last strategy has failed.
C1_FixedOrderFirstSuccess ==
    /\ tried # <<>> =>
          /\ \E k \in 1..2 :
                \A n \in 1..Len(tried) :
                    /\ n + k - 1 <= Len(StrategyOrder)
                    /\ tried[n].strategy = StrategyOrder[n + k - 1]
          /\ tried[1].strategy = "n8n_triple_layer" <=> TriesEnvelope(raw_input, source_hint)
          /\ \A n \in 1..(Len(tried) - 1) : ~Succeeded(tried[n].out)
          /\ Succeeded(LastTried.out) =>
                pc = "returned" /\ result = Return(LastTried.out.val)
    /\ pc = "returned" => tried # <<>> /\ Succeeded(LastTried.out)
    /\ pc \in {"all_failed", "raised"} =>
          /\ tried # <<>>
          /\ LastTried.strategy = "repair"
          /\ ~Succeeded(LastTried.out)

\* a call that the envelope extractor, the strict decoder and the resolver
\* failed and a later strategy answered
C1_Witness ==
    /\ pc = "returned"
    /\ Len(tried) >= 4
    /\ tried[1].strategy = "n8n_triple_layer"
    /\ result = Return(LastTried.out.val)

QuotedOutput == <<QUOTE>> \o W_output \o <<QUOTE>>

\* the call has attempted the envelope extractor or is about to
EnvelopeAttempted ==
    \/ pc = "n8n_triple_layer"
    \/ \E n \in 1..Len(tried) : tried[n].strategy = "n8n_triple_layer"

\* C2 as stated: the envelope extractor is attempted exactly when the hint names
\* the automation tool or the raw text holds both the wrapper key and a code
\* fence.
C2_KeyAndFence ==
    pc # "ready" =>
        (EnvelopeAttempted <=>
            \/ source_hint = "n8n"
            \/ Contains(raw_input, QuotedOutput) /\ Contains(raw_input, FENCE))

\* C2: the envelope extractor is attempted, and then first, exactly when the
\* hint names the automation tool or the raw text holds the quoted wrapper key
\* "output"; a code fence plays no part.
C2_HintOrKey ==
    /\ pc # "ready" =>
          (EnvelopeAttempted <=> source_hint = "n8n" \/ Contains(raw_input, QuotedOutput))
    /\ \A n \in 2..Len(tried) : tried[n].strategy # "n8n_triple_layer"

\* an unhinted text with the key and no fence, on which the envelope extractor
\* has been tried first
C2_Witness ==
    /\ source_hint = "None"
    /\ Contains(raw_input, QuotedOutput)
    /\ ~Contains(raw_input, FENCE)
    /\ tried # <<>>
    /\ tried[1].strategy = "n8n_triple_layer"

\* C3: when parse raises, errors (the message) holds one reason for every
\* strategy the call attempted, in the order of the attempts.
C3_ReasonForEveryAttempt ==
    pc = "raised" =>
        /\ Len(errors) = Len(tried)
        /\ \A n \in 1..Len(tried) : errors[n].label = ErrorLabel(tried[n].strategy)

\* no brace and no bracket in the text
NoBrackets(s) == \A k \in 1..Len(s) : s[k] \notin {"{", "}", "[", "]"}

\* the text is not JSON
NotJson(s) == ~json_loads(Strip(s)).ok

\* the strategies errors names
Labels == {errors[n].label : n \in 1..Len(errors)}

AllFailed == pc = "raised" /\ \A n \in 1..Len(tried) : ~Succeeded(tried[n].out)

PlainProse(s) ==
    /\ NoBrackets(s)
    /\ NotJson(s)
    /\ ~Contains(s, FENCE)
    /\ \A n \in 1..Len(prefixes) : ~StartsWith(Strip(s), prefixes[n])

ValidCardsData(s) ==
    /\ json_loads(Strip(s)).ok
    /\ IsDict(json_loads(Strip(s)).v)
    /\ HasKey(json_loads(Strip(s)).v, W_cards)
    /\ IsList(DictGet(json_loads(Strip(s)).v, W_cards))

\* C5: for a text that is already valid data with a cards list, parse returns
\* that list unchanged through the strict decoder, and last_strategy_used is
\* "standard" after the call.
C5_ValidDataThroughStandard ==
    (Done /\ ValidCardsData(raw_input)) =>
        /\ pc = "returned"
        /\ IsDict(result.val)
        /\ HasKey(result.val, W_cards)
        /\ DictGet(result.val, W_cards) = DictGet(json_loads(Strip(raw_input)).v, W_cards)
        /\ last_strategy_used = "standard"

\* the text between the opening fence with its newline and the newline with the
\* closing fence
FencedBody(s) == SubSeq(s, 9, Len(s) - 4)

\* the cards of a decoded card list: a list of dicts, or a dict with such a list
\* under 'cards'; None when it is neither
ListedCards(r) ==
    IF r.ok /\ IsList(r.v) /\ \A k \in 1..Len(r.v.v) : IsDict(r.v.v[k]) THEN r.v
    ELSE IF r.ok /\ IsDict(r.v) /\ HasKey(r.v, W_cards) /\ IsList(DictGet(r.v, W_cards))
    THEN DictGet(r.v, W_cards)
    ELSE None

\* a valid card list in one level of markdown JSON fencing, no backslash in it
IsFencedCardList(s) ==
    /\ Len(s) >= 12
    /\ StartsWith(s, FENCE \o W_json \o <<"\n">>)
    /\ SubSeq(s, Len(s) - 3, Len(s)) = <<"\n">> \o FENCE
    /\ ~Contains(FencedBody(s), <<BSL>>)
    /\ ~Contains(FencedBody(s), FENCE)
    /\ ListedCards(json_loads(FencedBody(s))) # None

\* the cards in what parse returns: the list itself, or the list under 'cards'
ReturnedCards(val) ==
    IF IsDict(val) /\ HasKey(val, W_cards) THEN DictGet(val, W_cards) ELSE val

\* C6: for a valid card list in one level of markdown JSON fencing with no
\* escaping in it, parse returns exactly the cards of the list, in their order.
C6_FencedListRecovered ==
    (Done /\ IsFencedCardList(raw_input)) =>
        /\ pc = "returned"
        /\ ReturnedCards(result.val) = ListedCards(json_loads(FencedBody(raw_input)))

\* C7: for an envelope (a list of wrappers whose output strings hold fenced
\* blocks with cards lists, one card at least among them) the envelope extractor
\* returns the cards of all the blocks: wrappers in list order, blocks in their
\* order in the output string, cards in their order in the block.
C7_EnvelopeCardsInOrder ==
    \A shape \in Shapes :
        (tried # <<>> /\ Total(shape) >= 1 /\ raw_input = EnvelopeTexts[shape]) =>
            /\ tried[1].strategy = "n8n_triple_layer"
            /\ tried[1].out = Return(Cards(CardsFrom(1, Total(shape))))

\* the envelope extractor has returned the 2 + MaxCards cards of two wrappers
C7_Witness ==
    /\ raw_input = EnvelopeTexts[<< <<2>>, <<MaxCards>> >>]
    /\ pc = "returned"
    /\ last_strategy_used = "n8n_triple_layer"
    /\ result = Return(Cards(CardsFrom(1, 2 + MaxCards)))

\* C8 as stated: when the first wrapper's block is corrupted by unbalanced
\* braces, the envelope extractor returns the cards of the second wrapper and
\* nothing else.
C8_CorruptedBlockSkipped ==
    \A kind \in CorruptionKinds :
        (tried # <<>> /\ raw_input = CorruptedEnvelopes[kind]) =>
            tried[1].out = Return(Cards(CardsFrom(3, MaxCards)))

\* C8: when the first wrapper's block is corrupted by unbalanced braces, the
\* envelope extractor does not raise, and what it returns ends with the cards
\* of the second wrapper; before them come the cards of the first wrapper that
\* the resolver has recovered from the corrupted block, if any.
C8_CorruptedBlockTolerated ==
    \A kind \in CorruptionKinds :
        (tried # <<>> /\ raw_input = CorruptedEnvelopes[kind]) =>
            /\ tried[1].strategy = "n8n_triple_layer"
            /\ \E k \in 0..2 :
                  tried[1].out = Return(Cards(CardsFrom(1, k) \o CardsFrom(3, MaxCards)))

\* the envelope extractor has returned the cards of the second wrapper alone,
\* the first block (its closing bracket and brace cut off) skipped
C8_Witness ==
    /\ raw_input = CorruptedEnvelopes[2]
    /\ tried # <<>>
    /\ tried[1].out = Return(Cards(CardsFrom(3, MaxCards)))
    /\ parsing_attempts = <<"n8n_triple_layer", "deep_unescape">>

\* C9: when the outer list decodes and one wrapper holds a decodable block with
\* a card, the envelope extractor returns that card, whatever the other
\* wrapper holds, a value that is not a string included.
C9_OtherWrappersTolerated ==
    (tried # <<>> /\ raw_input \in NonStringEnvelopes) =>
        /\ tried[1].strategy = "n8n_triple_layer"
        /\ tried[1].out = Return(Cards(CardsFrom(1, 1)))

\* C10: the resolver makes at most max_iterations passes and then returns a
\* decoded value or the result of the block scan; it never raises.
C10_ResolverBoundedAndQuiet ==
    \A n \in 1..Len(tried) :
        tried[n].strategy = "deep_unescape" =>
            /\ tried[n].out.exc = ""
            /\ deep_unescape_run(raw_input).iteration <= max_iterations

\* the strategies the call has attempted, in the order of the attempts
TriedStrategies == [n \in 1..Len(tried) |-> tried[n].strategy]

\* the strategies a call goes through when none succeeds
AllStrategies(raw, hint) ==
    IF TriesEnvelope(raw, hint) THEN StrategyOrder
    ELSE SubSeq(StrategyOrder, 2, Len(StrategyOrder))

\* C19: parse raises only when the strict decoder, the resolver, the cleanup
\* normalizer, the substring extractor and the repairer (and the envelope
\* extractor, if triggered) have all been attempted and none has given a value
\* that is not null; what it raises then is the aggregated ValueError; and an
\* exception raised in a strategy is recorded in errors and is not the outcome
\* of parse.
C19_RaisesOnlyWhenExhausted ==
    /\ result.exc \in {"pending", "", "ValueError"}
    /\ pc = "raised" =>
           /\ result = Raise("ValueError")
           /\ TriedStrategies = AllStrategies(raw_input, source_hint)
           /\ \A n \in 1..Len(tried) : ~Succeeded(tried[n].out)
    /\ \A n \in 1..Len(tried) :
           tried[n].out.exc # "" =>
               /\ result.exc # tried[n].out.exc
               /\ \E k \in 1..Len(errors) :
                      errors[k] = [label |-> ErrorLabel(tried[n].strategy),
                                   exc |-> tried[n].out.exc]

\* parse has raised the ValueError after six attempts, the resolver's among
\* them ended by an AttributeError
C19_Witness ==
    /\ pc = "raised"
    /\ Len(tried) = 6
    /\ tried[3].out.exc = "AttributeError"
    /\ result = Raise("ValueError")
    /\ Len(errors) = 4

(***************************************************************************)
(* Properties of the strategies called on their own                        *)
(***************************************************************************)
\* valid JSON in which no backslash is doubled: a quote inside a string value
\* carries one backslash
MinimallyEscaped(s) == json_loads(Strip(s)).ok /\ ~Contains(s, <<BSL, BSL>>)

\* the resolver has been called on its own
ResolverCalled == pc = "direct" /\ direct.op = "deep_unescape"

\* C11: on text that is already minimally escaped the resolver makes one pass
\* at most, leaves the text as it is in every pass, and returns the value the
\* strict decoder gives for the text.
C11_MinimallyEscapedUnaltered ==
    (ResolverCalled /\ MinimallyEscaped(direct.text)) =>
        /\ direct.out = Return(json_loads(Strip(direct.text)).v)
        /\ deep_unescape_run(direct.text).iteration <= 1
        /\ \A n \in 1..Len(deep_unescape_run(direct.text).trace) :
              deep_unescape_run(direct.text).trace[n] = Strip(direct.text)

\* a strategy has been called on its own
StrategyCalled == pc = "direct" /\ direct.op \in Strategies

\* C18 as stated: no strategy, called on any string, ends by raising an
\* exception; each reports failure as a null return value.
C18_StrategiesNeverRaise == StrategyCalled => direct.out.exc = ""

\* C18: a decode error ends a strategy in one of two ways. The substring
\* extractor and the heuristic repairer catch it and return null, and never
\* raise; the resolver catches it too. The strict decoder and the cleanup
\* normalizer do not catch it: they raise the decoder's error exactly when the
\* text (stripped, or cleaned) does not decode, and return the decoded value
\* otherwise; so does the envelope extractor when the outer text does not
\* decode.
C18_DecodeErrorsCaughtOrRaised ==
    StrategyCalled =>
        /\ direct.op \in {"extraction", "repair"} => direct.out.exc = ""
        /\ direct.op = "deep_unescape" => direct.out.exc # "JSONDecodeError"
        /\ direct.op = "standard" =>
               direct.out = IF json_loads(Strip(direct.text)).ok
                            THEN Return(json_loads(Strip(direct.text)).v)
                            ELSE Raise("JSONDecodeError")
        /\ direct.op = "cleanup" =>
               direct.out = IF json_loads(clean_json_string(direct.text)).ok
                            THEN Return(json_loads(clean_json_string(direct.text)).v)
                            ELSE Raise("JSONDecodeError")
        /\ (direct.op = "n8n_triple_layer" /\ ~json_loads(Strip(direct.text)).ok) =>
               direct.out = Raise("JSONDecodeError")

\* the heuristic repairer, called on a text it cannot repair, has returned null
C18_Witness ==
    /\ StrategyCalled
    /\ direct.op = "repair"
    /\ direct.text # <<>>
    /\ ~json_loads(repair_json_string(direct.text)).ok
    /\ direct.out = Return(None)

(***************************************************************************)
(* Properties of parse_flashcard_data and of the normalizer                *)
(***************************************************************************)
\* parse_flashcard_data has returned or raised
FlashcardsDone == caller = "parse_flashcard_data" /\ normalized # Pending

\* a dict with a list under 'cards'
HasCardsList(val) == IsDict(val) /\ HasKey(val, W_cards) /\ IsList(DictGet(val, W_cards))

\* C12: every value parse_flashcard_data returns is a mapping with a list,
\* empty or not, under the cards key.
C12_CardsAlwaysAList ==
    (FlashcardsDone /\ normalized.exc = "") => HasCardsList(normalized.val)

NormalizerCalled == pc = "direct" /\ direct.op = "normalize"

\* a mapping with one of the keys of a card
CardLike(data) ==
    IsDict(data) /\ \E key \in {W_front, W_back, W_question, W_answer} : HasKey(data, key)

\* a mapping with a list under the key
ListUnder(data, key) == IsDict(data) /\ HasKey(data, key) /\ IsList(DictGet(data, key))

\* a mapping with a list under one of the alias keys
HasAlias(data) == \E key \in {W_data, W_items, W_flashcards} : ListUnder(data, key)

\* C14: the normalizer resolves a decoded value by the precedence cards key,
\* bare list, single card, alias key: a mapping with a cards key is returned as
\* it is; a list is returned under the cards key; a mapping with a card's key
\* and no cards key is returned as the one element of the cards list, whatever
\* lists it holds under data, items or flashcards; only a mapping that is none
\* of these gets the list under one of its alias keys.
C14_NormalizerPrecedence ==
    NormalizerCalled =>
        /\ (IsDict(direct.data) /\ HasKey(direct.data, W_cards))
               => direct.out = Return(direct.data)
        /\ IsList(direct.data) => direct.out = Return(PyDict(<< <<W_cards, direct.data>> >>))
        /\ (CardLike(direct.data) /\ ~HasKey(direct.data, W_cards))
               => direct.out = Return(Cards(<<direct.data>>))
        /\ (HasAlias(direct.data) /\ ~CardLike(direct.data) /\ ~HasKey(direct.data, W_cards))
               => \E key \in {W_data, W_items, W_flashcards} :
                      /\ ListUnder(direct.data, key)
                      /\ direct.out = Return(PyDict(<< <<W_cards, DictGet(direct.data, key)>> >>))

\* the normalizer has wrapped a mapping that has a card's key and a list under
\* data as a single card
C14_Witness ==
    /\ NormalizerCalled
    /\ CardLike(direct.data)
    /\ ListUnder(direct.data, W_data)
    /\ direct.out = Return(Cards(<<direct.data>>))

\* the list under the first of data, items, flashcards that holds a list
FirstAliasList(data) ==
    IF ListUnder(data, W_data) THEN DictGet(data, W_data)
    ELSE IF ListUnder(data, W_items) THEN DictGet(data, W_items)
    ELSE DictGet(data, W_flashcards)

\* C15: for a mapping with no cards key and no front, back, question or answer
\* key that holds a list under data, items or flashcards, the normalizer returns
\* under the cards key the list of the first of these keys, in that order, whose
\* value is a list.
C15_FirstAliasList ==
    (NormalizerCalled /\ HasAlias(direct.data) /\ ~CardLike(direct.data)
                      /\ ~HasKey(direct.data, W_cards)) =>
        direct.out = Return(PyDict(<< <<W_cards, FirstAliasList(direct.data)>> >>))

\* the normalizer has returned the list under items of a mapping whose data is
\* not a list and whose flashcards is another list
C15_Witness ==
    /\ NormalizerCalled
    /\ IsDict(direct.data)
    /\ HasKey(direct.data, W_data) /\ ~ListUnder(direct.data, W_data)
    /\ ListUnder(direct.data, W_items) /\ ListUnder(direct.data, W_flashcards)
    /\ DictGet(direct.data, W_items) # DictGet(direct.data, W_flashcards)
    /\ direct.out = Return(PyDict(<< <<W_cards, DictGet(direct.data, W_items)>> >>))

\* C16: the normalizer has no failure mode: for every decoded value it returns
\* and does not raise; it returns an empty cards list for a value with no
\* recognizable shape; and applied to what it has returned it returns the same.
C16_NormalizerTotal ==
    NormalizerCalled =>
        /\ direct.out.exc = ""
        /\ (~IsList(direct.data) /\ ~CardLike(direct.data) /\ ~HasAlias(direct.data)
                /\ ~(IsDict(direct.data) /\ HasKey(direct.data, W_cards)))
               => direct.out = Return(Cards(<<>>))
        /\ normalize_flashcard_structure(direct.out.val) = direct.out

\* the normalizer has returned an empty cards list for a number
C16_Witness ==
    /\ NormalizerCalled
    /\ direct.data.t = "num"
    /\ direct.out = Return(Cards(<<>>))

\* a decoded value with no recognizable card-list shape: an unrelated object
\* (not a wrapper of the envelope either), a scalar or null
Unrecognizable(data) ==
    /\ ~IsList(data)
    /\ ~CardLike(data)
    /\ ~HasAlias(data)
    /\ ~(IsDict(data) /\ HasKey(data, W_cards))
    /\ ~(IsDict(data) /\ \E key \in {W_output, W_data, W_result} : HasKey(data, key))

\* C17: for a text that the strict decoder decodes to a value with no
\* recognizable card-list shape, parse_flashcard_data returns an empty cards
\* list and does not raise.
C17_StructureNotFound ==
    (FlashcardsDone /\ json_loads(Strip(raw_input)).ok
                    /\ Unrecognizable(json_loads(Strip(raw_input)).v)) =>
        normalized = Return(Cards(<<>>))

(***************************************************************************)
(* Properties of concurrent requests                                       *)
(***************************************************************************)
\* request r's call is under way or has returned, its caller not gone yet
InCall(r) == requests[r].pc \notin {"idle", "raised"}

\* what C20 promises request r: the last_strategy_used it reads after its parse
\* has returned is the strategy its own call succeeded with, and the instance's
\* parsing_attempts are the attempts of its own call
Unraced(r) ==
    /\ requests[r].pc = "done" => requests[r].seen = requests[r].strategy
    /\ InCall(r) => attrs[owner[r]].parsing_attempts = requests[r].mine

\* C20 as stated: two calls that interleave on the same instance never race on
\* last_strategy_used and parsing_attempts.
C20_SharedInstanceNoRace == \A r \in Requests : Unraced(r)

\* C20: two calls that interleave never race on last_strategy_used and
\* parsing_attempts when each request uses an instance of its own.
C20_OwnInstanceNoRace ==
    \A r \in Requests :
        (\A q \in Requests \ {r} : owner[q] # owner[r]) => Unraced(r)

\* two requests on instances of their own have read the strategies of their own
\* calls, which differ
C20_Witness ==
    /\ owner[1] # owner[2]
    /\ \A r \in Requests : requests[r].pc = "done" /\ requests[r].seen = requests[r].strategy
    /\ requests[1].strategy # requests[2].strategy

(***************************************************************************)
(* Properties of the web application                                       *)
(***************************************************************************)
\* the card has the field, a str that is not blank
Filled(card, key) ==
    HasKey(card, key) /\ IsStr(DictGet(card, key)) /\ ~Blank(DictGet(card, key))

\* the card has one of the four shapes of a valid card, none of the fields it
\* has is blank, and its high_yield_flag, if it has one, is valid
ValidShape(card) ==
    /\ IsDict(card)
    /\ \A key \in {W_question, W_answer, W_front, W_back, W_cloze_text} :
          HasKey(card, key) => Filled(card, key)
    /\ \/ Filled(card, W_question) /\ Filled(card, W_answer)
       \/ Filled(card, W_front) /\ Filled(card, W_back)
       \/ Filled(card, W_cloze_text)
       \/ /\ HasKey(card, W_type)
          /\ IsStr(DictGet(card, W_type))
          /\ Lower(DictGet(card, W_type).v) = W_cloze
          /\ Filled(card, W_front)
          /\ ~HasKey(card, W_back)
    /\ HasKey(card, W_type) => IsStr(DictGet(card, W_type))
    /\ HasKey(card, W_high_yield_flag) =>
          /\ IsStr(DictGet(card, W_high_yield_flag))
          /\ Lower(Strip(DictGet(card, W_high_yield_flag).v)) \in {<<>>, W_high_yield}

\* a named deck with at least one card, every card of a valid shape
ValidDeck(data) ==
    /\ IsDict(data)
    /\ HasKey(data, W_deck_name)
    /\ HasKey(data, W_cards)
    /\ IsList(DictGet(data, W_cards))
    /\ DictGet(data, W_cards).v # <<>>
    /\ \A n \in 1..Len(DictGet(data, W_cards).v) : ValidShape(DictGet(data, W_cards).v[n])

\* C21: the validator accepts every deck whose every card has question and
\* answer, or front and back, or a non-empty cloze_text, or the type cloze with
\* a non-empty front and no back field: /api/validate answers 200 for it, and
\* so for the four-card deck of the repository's test.
C21_ValidShapesAccepted ==
    (reply.route = "/api/validate" /\ ValidDeck(reply.data)) => reply.status = 200

\* /api/generate-json has answered 200, with a download_url
Offered == reply.route = "/api/generate-json" /\ reply.status = 200

\* C22: after /api/generate-json has answered 200 with a download_url, the
\* package file the URL names is in /tmp when the answer is returned, and a
\* following GET of the download_url answers 200 with that file.
C22_OfferedFileDownloads ==
    /\ [](Offered => reply.file \in Names(tmp))
    /\ [][(Offered /\ reply'.route = "/download" /\ reply'.asked = reply.file)
             => (reply'.status = 200 /\ reply'.file = reply.file)]_vars

(***************************************************************************)
(* Properties of the resolver and of the substring extractor               *)
(***************************************************************************)
\* the text the resolver has been called with, by parse or on its own; <<>>
\* stands for no call
ResolverTexts ==
    (IF \E n \in 1..Len(tried) : tried[n].strategy = "deep_unescape"
     THEN {raw_input} ELSE {})
    \cup (IF ResolverCalled THEN {direct.text} ELSE {})

\* the contents a further pass was applied to: the content after each pass but
\* the last
Reduced(run) == SubSeq(run.trace, 1, Len(run.trace) - 1)

\* no pass is applied to content that decodes after the pass before it
StopsWhenDecodable(run) ==
    \A k \in 1..Len(Reduced(run)) : ~json_loads(Reduced(run)[k]).ok

\* C23: in the resolver the loop stops at the first pass after which the text
\* decodes: no further reduction pass is applied to text that already decodes.
C23_NoPassOnDecodableText ==
    \A text \in ResolverTexts : StopsWhenDecodable(deep_unescape_run(text))

\* the block decodes to a mapping with a cards key or to a non-empty list of
\* mappings
CardsBlock(block) ==
    /\ json_loads(block).ok
    /\ \/ IsDict(json_loads(block).v) /\ HasKey(json_loads(block).v, W_cards)
       \/ /\ IsList(json_loads(block).v)
          /\ json_loads(block).v.v # <<>>
          /\ \A k \in 1..Len(json_loads(block).v.v) : IsDict(json_loads(block).v.v[k])

\* what the block gives: the mapping itself, or the list under cards
CardsOfBlock(block) ==
    IF IsDict(json_loads(block).v) THEN json_loads(block).v
    ELSE Cards(json_loads(block).v.v)

\* the scan of the blocks has ended with out: the first block in text order
\* that holds cards, None when no block does
ScanGives(blocks, out) ==
    /\ out.exc = ""
    /\ (\A n \in 1..Len(blocks) : ~CardsBlock(blocks[n])) => out.val = None
    /\ \A n \in 1..Len(blocks) :
          (CardsBlock(blocks[n]) /\ \A k \in 1..(n - 1) : ~CardsBlock(blocks[k]))
              => out.val = CardsOfBlock(blocks[n])

\* the loop has ended with content that does not decode
LoopLeftUndecodable(loop) == loop.exc = "" /\ ~json_loads(loop.content).ok

\* when the loop has left content that does not decode, the run has scanned
\* its blocks
ScannedAfter(loop, run) ==
    LoopLeftUndecodable(loop) =>
        (run.scanned /\ ScanGives(json_blocks(loop.content), run.out))

\* C24: when the resolver's loop ends and the text it leaves does not decode,
\* the blocks of that text are scanned before the strategy reports failure;
\* the scan returns the first block in text order that is a mapping with a
\* cards key, or {cards: L} for the first that is a non-empty list L of
\* mappings, and None when there is no such block.
C24_ScanAfterLoop ==
    \A text \in ResolverTexts :
        ScannedAfter(UnescapeLoop(Strip(text), 0, <<>>), deep_unescape_run(text))

\* the scan has run in a parse call, on text with a block that holds no cards
\* before the one that does, and parse returns what the scan has found
C24_Witness ==
    /\ pc = "returned"
    /\ last_strategy_used = "deep_unescape"
    /\ deep_unescape_run(raw_input).scanned
    /\ result.val = Deck(1)
    /\ \E n \in 2..Len(json_blocks(Strip(raw_input))) :
          /\ CardsBlock(json_blocks(Strip(raw_input))[n])
          /\ \A k \in 1..(n - 1) : ~CardsBlock(json_blocks(Strip(raw_input))[k])

\* the text the substring extractor has been called with, by parse or on its own
ExtractorTexts ==
    (IF \E n \in 1..Len(tried) : tried[n].strategy = "extraction"
     THEN {raw_input} ELSE {})
    \cup (IF pc = "direct" /\ direct.op = "extraction" THEN {direct.text} ELSE {})

\* val is the decode of a candidate that decodes, and every candidate that is
\* strictly longer fails to decode
LongestDecodable(candidates, val) ==
    \E n \in 1..Len(candidates) :
        /\ json_loads(candidates[n]).ok
        /\ Dumps(json_loads(candidates[n]).v) = Dumps(val)
        /\ \A k \in 1..Len(candidates) :
              Len(candidates[k]) > Len(candidates[n]) => ~json_loads(candidates[k]).ok

\* the extractor's run on the candidates of the text, in the order of the text
LongestFirst(candidates, run) ==
    /\ run.out.exc = ""
    /\ (\E n \in 1..Len(candidates) : json_loads(candidates[n]).ok)
          => (~run.fenced /\ LongestDecodable(candidates, run.out.val))
    /\ run.fenced => \A n \in 1..Len(candidates) : ~json_loads(candidates[n]).ok

\* C25: the substring extractor returns the decode of the longest of its
\* bracket candidates that decodes, a shorter candidate's value only when
\* every strictly longer one has failed to decode, and it consults the fenced
\* code blocks only when no bracket candidate decodes.
C25_LongestCandidateFirst ==
    \A text \in ExtractorTexts : LongestFirst(json_blocks(text), extraction_run(text))

\* parse has returned through the extractor the shorter of two candidates, the
\* longer one, the first in the text, having failed to decode
C25_Witness ==
    /\ pc = "returned"
    /\ last_strategy_used = "extraction"
    /\ Len(json_blocks(raw_input)) = 2
    /\ Dumps(result.val) = Dumps(json_loads(json_blocks(raw_input)[2]).v)
    /\ ~json_loads(json_blocks(raw_input)[1]).ok
    /\ Len(json_blocks(raw_input)[1]) > Len(json_blocks(raw_input)[2])

(***************************************************************************)
(* Properties of the instance's attributes                                 *)
(***************************************************************************)
\* what the n-th attempt of the call has appended to parsing_attempts: the
\* strategy's name, and for the envelope extractor also a deep_unescape for
\* every block it has passed to the resolver
AppendedBy(n) ==
    IF tried[n].strategy = "n8n_triple_layer" THEN n8n_run(raw_input).attempts
    ELSE <<tried[n].strategy>>

\* C26 as stated: after a parse call parsing_attempts holds exactly the
\* strategies parse has attempted in the call, in the order of the attempts.
C26_ExactlyTheAttempts == Done => parsing_attempts = TriedStrategies

\* C26: after a parse call parsing_attempts holds what the strategies run in
\* that call have appended, in the order they have run, the resolver runs of
\* the envelope extractor included, and nothing of an earlier call.
C26_AttemptsOfLastCall ==
    Done => parsing_attempts = Flatten([n \in 1..Len(tried) |-> AppendedBy(n)], 1, Len(tried))

\* a parse call has failed on an instance that an earlier call has succeeded
\* on through the envelope extractor: parsing_attempts holds the six attempts
\* of the failed call
C26_Witness ==
    /\ pc = "raised"
    /\ last_strategy_used = "n8n_triple_layer"
    /\ parsing_attempts = StrategyOrder

\* C27: a parse call that fails leaves last_strategy_used as it was: no step
\* of parse but the return of a strategy's value changes the attribute, so
\* after the failure it still holds the strategy of the last call that
\* succeeded, or None.
C27_FailureKeepsLastStrategy ==
    [][pc' # "returned" => last_strategy_used' = last_strategy_used]_vars

\* a call has failed after an earlier one has succeeded: the attribute names
\* a strategy, which the failed call has tried without success
C27_Witness ==
    /\ pc = "raised"
    /\ result = Raise("ValueError")
    /\ last_strategy_used \in Strategies
    /\ \E n \in 1..Len(tried) :
          tried[n].strategy = last_strategy_used /\ ~Succeeded(tried[n].out)

(***************************************************************************)
(* Further properties of parse and of parse_flashcard_data                 *)
(***************************************************************************)
\* C28: whenever parse raises its total-failure error the list of the
\* strategies' messages is not empty: the error message holds the failure
\* reason of one strategy at least, for every input, those that decode to
\* null included.
C28_FailureNamesAReason == pc = "raised" => errors # <<>>

\* the fenced block yields no card: it decodes to a mapping whose cards list is
\* empty
EmptyBlock(block) ==
    /\ json_loads(block).ok
    /\ IsDict(json_loads(block).v)
    /\ HasKey(json_loads(block).v, W_cards)
    /\ DictGet(json_loads(block).v, W_cards) = PyList(<<>>)

\* a wrapper with a string output in which every fenced block is empty
CardlessWrapper(item) ==
    /\ IsDict(item)
    /\ HasKey(item, W_output)
    /\ IsStr(DictGet(item, W_output))
    /\ \A n \in 1..Len(json_matches(DictGet(item, W_output).v)) :
          EmptyBlock(json_matches(DictGet(item, W_output).v)[n])

\* a well-formed envelope in which no fenced block yields a card: a list of
\* wrappers, none with a fence or all their blocks with an empty cards list
CardlessEnvelope(s) ==
    /\ json_loads(s).ok
    /\ IsList(json_loads(s).v)
    /\ json_loads(s).v.v # <<>>
    /\ \A n \in 1..Len(json_loads(s).v.v) : CardlessWrapper(json_loads(s).v.v[n])

\* C29: for a well-formed envelope in which no fenced block yields a card,
\* parse_flashcard_data signals that no cards are found, by a failure or by an
\* empty cards list: it does not return the wrappers as the cards.
C29_CardlessEnvelopeGivesNoCards ==
    (FlashcardsDone /\ CardlessEnvelope(raw_input)) =>
        \/ normalized.exc # ""
        \/ /\ HasCardsList(normalized.val)
           /\ DictGet(normalized.val, W_cards).v = <<>>

\* the text the envelope extractor has been called with, by parse or on its own
EnvelopeTextsTried ==
    (IF \E n \in 1..Len(tried) : tried[n].strategy = "n8n_triple_layer"
     THEN {raw_input} ELSE {})
    \cup (IF pc = "direct" /\ direct.op = "n8n_triple_layer" THEN {direct.text} ELSE {})

\* the wrappers of the envelope
WrappersOf(s) ==
    IF ~json_loads(Strip(s)).ok THEN <<>>
    ELSE IF IsList(json_loads(Strip(s)).v) THEN json_loads(Strip(s)).v.v
    ELSE <<json_loads(Strip(s)).v>>

\* the fenced blocks of the wrapper's output
BlocksOf(item) ==
    IF IsDict(item) /\ IsStr(output_of(item)) THEN json_matches(output_of(item).v)
    ELSE <<>>

\* the block decodes to a scalar or to null
ScalarBlock(block) ==
    json_loads(block).ok /\ json_loads(block).v.t \in {"null", "bool", "num", "str"}

\* the JSON texts of the values of the envelope's blocks that decode to a
\* scalar or to null
ScalarValues(s) ==
    UNION {{Dumps(json_loads(BlocksOf(WrappersOf(s)[w])[n]).v)
               : n \in {k \in 1..Len(BlocksOf(WrappersOf(s)[w])) :
                           ScalarBlock(BlocksOf(WrappersOf(s)[w])[k])}}
              : w \in 1..Len(WrappersOf(s))}

\* no element of the cards the extractor returns is the value of a block that
\* is a scalar or null
NoScalarCard(s, out) ==
    Succeeded(out) =>
        \A k \in 1..Len(DictGet(out.val, W_cards).v) :
            Dumps(DictGet(out.val, W_cards).v[k]) \notin ScalarValues(s)

\* C30: the envelope extractor takes a block's value for a single card only
\* when it is a mapping: a block that decodes to a scalar or to null adds no
\* card, and its value is no element of the cards list the extractor returns.
C30_OnlyMappingsAreSingleCards ==
    \A text \in EnvelopeTextsTried : NoScalarCard(text, parse_n8n_format(text))

====
